---- MODULE Spec2Model ----
(***************************************************************************)
(* Airtable contractor-application system: the record store (Applicants,   *)
(* Personal Details, Work Experience, Salary Preferences, Shortlisted      *)
(* Leads) and the operations the repository runs against it.  The          *)
(* repository carries three implementations of every operation:            *)
(*   root scripts   03_compress_data.py, decompress_data.py,               *)
(*                  05_llm_evaluator.py                                    *)
(*   package src/   json_compressor.py, json_decompressor.py,              *)
(*                  llm_evaluator.py, airtable_client.py (used by cli.py)   *)
(*   scripts/       compress.py, decompress.py, llm_evaluator.py           *)
(* All of them work on the same base, so each is an action on one store.   *)
(***************************************************************************)
EXTENDS Integers, Sequences, FiniteSets, TLC

VARIABLES Applicants,         \* Applicants table: record id -> fields
          PersonalDetails,    \* Personal Details table, in creation order
          WorkExperience,     \* Work Experience table, in creation order
          SalaryPreferences,  \* Salary Preferences table, in creation order
          ShortlistedLeads,   \* Shortlisted Leads table, in creation order
          nextRecordId,       \* next record id the store hands out
          last,               \* what the most recent operation did and reported
          runsLeft            \* program runs the behaviour may still start

vars == <<Applicants, PersonalDetails, WorkExperience, SalaryPreferences,
          ShortlistedLeads, nextRecordId, last, runsLeft>>

(***************************************************************************)
(* Bounds of the model.                                                    *)
(***************************************************************************)
MaxOps == 3           \* program runs in one behaviour
MaxStoreOps == 2      \* program runs in one behaviour of SpecStore
MaxBatchRuns == 1     \* process-all runs in one behaviour of SpecBatch
MaxFailPoint == 7     \* a store request up to this position may raise

ApplicantIds == {"recA", "recB"}

(***************************************************************************)
(* Python values.  A dict is a function on its keys; a key that is not     *)
(* there is outside DOMAIN.  None has one stand-in per slot type.          *)
(***************************************************************************)
NullStr == "<None>"
NullNum == -1
EmptyDict == <<>>

Get(d, k, dflt) == IF k \in DOMAIN d THEN d[k] ELSE dflt

\* text of a JSON field: empty, not parsable, or the dump of a value
EmptyText == [kind |-> "empty", val |-> <<>>]
Garbage == [kind |-> "garbage", val |-> <<>>]
json_dumps(d) == [kind |-> "json", val |-> d]
IsJson(s) == s.kind = "json"
json_loads(s) == s.val

\* a checkbox cell
Checked == "<checked>"
Unchecked == "<unchecked>"
checkbox(b) == IF b THEN Checked ELSE Unchecked

NoHash == <<"none", <<>>>>
compute_json_hash(json_data) == <<"sha256", json_dumps(json_data).val>>

(***************************************************************************)
(* The store.  Every request may raise; fp counts down to the request      *)
(* that does.  A raised exception stops every later request of the same    *)
(* try block.                                                              *)
(***************************************************************************)
NumericFields == {"Preferred Rate", "Minimum Rate", "Availability (hrs/wk)",
                  "LLM Score"}

IsEmptyValue(k, v) ==
    IF k \in NumericFields THEN v = NullNum
    ELSE IF k = "Compressed JSON" THEN v = EmptyText
    ELSE IF k = "JSON Hash" THEN v = NoHash
    ELSE IF k = "Score Reason" THEN v = <<>>
    ELSE IF k = "Shortlist Status" THEN v = Unchecked
    ELSE v \in {"", NullStr}

\* the store keeps no empty cell: a field written as None or "" is not returned
Stored(fields) ==
    [k \in {x \in DOMAIN fields : ~IsEmptyValue(x, fields[x])} |-> fields[k]]

Merge(old, new) ==
    Stored([k \in (DOMAIN old) \cup (DOMAIN new) |->
              IF k \in DOMAIN new THEN new[k] ELSE old[k]])

TheStore == [app |-> Applicants, pd |-> PersonalDetails, we |-> WorkExperience,
             sp |-> SalaryPreferences, sl |-> ShortlistedLeads,
             next |-> nextRecordId]

Ctx(s, fp) == [s |-> s, k |-> fp, exc |-> FALSE]

Tick(c) == IF c.k = 1 THEN [c EXCEPT !.k = 0, !.exc = TRUE]
           ELSE IF c.k > 1 THEN [c EXCEPT !.k = c.k - 1]
           ELSE c

Caught(c) == [c EXCEPT !.exc = FALSE]

Linked(recs, a) == SelectSeq(recs, LAMBDA r : a \in r.link)

table_all(c) == IF c.exc THEN c ELSE Tick(c)

table_get(c) == IF c.exc THEN c ELSE Tick(c)

table_create(c, tbl, a, fields) ==
    IF c.exc THEN c
    ELSE LET t == Tick(c)
         IN IF t.exc THEN t
            ELSE [t EXCEPT !.s = [t.s EXCEPT
                     ![tbl] = Append(@, [id |-> t.s.next, link |-> {a},
                                         fields |-> Stored(fields)]),
                     !.next = @ + 1]]

UpdatedRecord(r, a, fields) ==
    [id |-> r.id, link |-> {a}, fields |-> Merge(r.fields, fields)]

table_update(c, tbl, id, a, fields) ==
    IF c.exc THEN c
    ELSE LET t == Tick(c)
             old == t.s[tbl]
             new == [i \in 1..Len(old) |->
                       IF old[i].id = id THEN UpdatedRecord(old[i], a, fields)
                       ELSE old[i]]
         IN IF t.exc THEN t
            ELSE [t EXCEPT !.s = [t.s EXCEPT ![tbl] = new]]

table_delete(c, tbl, id) ==
    IF c.exc THEN c
    ELSE LET t == Tick(c)
         IN IF t.exc THEN t
            ELSE [t EXCEPT !.s = [t.s EXCEPT
                     ![tbl] = SelectSeq(@, LAMBDA r : r.id # id)]]

applicants_update(c, a, fields) ==
    IF c.exc THEN c
    ELSE LET t == Tick(c)
         IN IF t.exc THEN t
            ELSE [t EXCEPT !.s = [t.s EXCEPT
                     !.app = [x \in DOMAIN t.s.app |->
                                IF x = a THEN Merge(t.s.app[x], fields)
                                ELSE t.s.app[x]]]]

(***************************************************************************)
(* Aggregation (compress): child tables -> Compressed JSON.                *)
(***************************************************************************)
NoData == <<>>

\* 03_compress_data.py: the dict built from the three record lists
compressed_json_03(personal_data, work_records, salary_data) ==
    [personal |-> [name |-> Get(personal_data, "Full Name", ""),
                   email |-> Get(personal_data, "Email", ""),
                   location |-> Get(personal_data, "Location", ""),
                   linkedin |-> Get(personal_data, "LinkedIn", "")],
     experience |-> [i \in 1..Len(work_records) |->
                       [company |-> Get(work_records[i].fields, "Company", ""),
                        title |-> Get(work_records[i].fields, "Title", ""),
                        start |-> Get(work_records[i].fields, "Start", ""),
                        end |-> Get(work_records[i].fields, "End", ""),
                        technologies |-> Get(work_records[i].fields, "Technologies", "")]],
     salary |-> [preferred_rate |-> Get(salary_data, "Preferred Rate", 0),
                 minimum_rate |-> Get(salary_data, "Minimum Rate", 0),
                 currency |-> Get(salary_data, "Currency", "USD"),
                 availability |-> Get(salary_data, "Availability (hrs/wk)", 0)]]

\* 03_compress_data.py compress_applicant_data: None when a table read raises
\* or when any of the three record lists is empty
compress_applicant_data_03(c0, a) ==
    LET c1 == table_all(c0)
        personal_records == Linked(c1.s.pd, a)
        c2 == table_all(c1)
        work_records == Linked(c2.s.we, a)
        c3 == table_all(c2)
        salary_records == Linked(c3.s.sp, a)
    IN IF c1.exc THEN [c |-> Caught(c1), data |-> NoData, ok |-> FALSE]
       ELSE IF personal_records = <<>> THEN [c |-> c1, data |-> NoData, ok |-> FALSE]
       ELSE IF c2.exc THEN [c |-> Caught(c2), data |-> NoData, ok |-> FALSE]
       ELSE IF work_records = <<>> THEN [c |-> c2, data |-> NoData, ok |-> FALSE]
       ELSE IF c3.exc THEN [c |-> Caught(c3), data |-> NoData, ok |-> FALSE]
       ELSE IF salary_records = <<>> THEN [c |-> c3, data |-> NoData, ok |-> FALSE]
       ELSE [c |-> c3, ok |-> TRUE,
             data |-> compressed_json_03(personal_records[1].fields, work_records,
                                         salary_records[1].fields)]

\* src/json_compressor.py compress_applicant_data: a missing one-to-one record
\* gives an empty section; any store exception propagates
compress_applicant_data_src(c0, a) ==
    LET c1 == table_all(c0)                 \* get_applicant
        c2 == table_all(c1)                 \* get_personal_details
        personal_details == Linked(c2.s.pd, a)
        c3 == table_all(c2)                 \* get_work_experiences
        work_experiences == Linked(c3.s.we, a)
        c4 == table_all(c3)                 \* get_salary_preferences
        salary_preferences == Linked(c4.s.sp, a)
        full == compressed_json_03(
                    IF personal_details = <<>> THEN EmptyDict ELSE personal_details[1].fields,
                    work_experiences,
                    IF salary_preferences = <<>> THEN EmptyDict ELSE salary_preferences[1].fields)
    IN IF c4.exc THEN [c |-> c4, data |-> NoData, ok |-> FALSE]
       ELSE [c |-> c4, ok |-> TRUE,
             data |-> [personal |-> IF personal_details = <<>> THEN EmptyDict ELSE full.personal,
                       experience |-> full.experience,
                       salary |-> IF salary_preferences = <<>> THEN EmptyDict ELSE full.salary]]

\* scripts/compress.py get_linked_records: a read that raises yields no records
get_linked_records(c, tbl, a) ==
    LET t == table_all(c)
    IN IF c.exc THEN [c |-> c, records |-> <<>>]
       ELSE IF t.exc THEN [c |-> Caught(t), records |-> <<>>]
       ELSE [c |-> t, records |-> Linked(t.s[tbl], a)]

\* scripts/compress.py DataCompressor.compress_applicant_data
DataCompressor_compress_applicant_data(c0, a) ==
    LET p == get_linked_records(c0, "pd", a)
        e == get_linked_records(p.c, "we", a)
        s == get_linked_records(e.c, "sp", a)
        personal == IF p.records = <<>> THEN EmptyDict
                    ELSE [name |-> Get(p.records[1].fields, "Full Name", NullStr),
                          email |-> Get(p.records[1].fields, "Email", NullStr),
                          location |-> Get(p.records[1].fields, "Location", NullStr),
                          linkedin |-> Get(p.records[1].fields, "LinkedIn", NullStr)]
        experience == [i \in 1..Len(e.records) |->
                         [company |-> Get(e.records[i].fields, "Company", NullStr),
                          title |-> Get(e.records[i].fields, "Title", NullStr),
                          start |-> Get(e.records[i].fields, "Start", NullStr),
                          end |-> Get(e.records[i].fields, "End", NullStr),
                          technologies |-> Get(e.records[i].fields, "Technologies", NullStr)]]
        salary == IF s.records = <<>> THEN EmptyDict
                  ELSE [minimum_rate |-> Get(s.records[1].fields, "Minimum Rate", NullNum),
                        currency |-> Get(s.records[1].fields, "Currency", NullStr),
                        availability |-> Get(s.records[1].fields, "Availability (hrs/wk)", NullNum),
                        rate |-> Get(s.records[1].fields, "Preferred Rate", NullNum)]
    IN [c |-> s.c, ok |-> TRUE,
        data |-> [personal |-> personal, experience |-> experience, salary |-> salary]]

(***************************************************************************)
(* Enrichment: Compressed JSON -> text-generation provider -> LLM fields.   *)
(***************************************************************************)
LLM_RETRY_ATTEMPTS == 3
LLM_RETRY_DELAY == 1
max_retries == 3
initial_delay == 1

\* what one provider call can do: raise one of the client's errors or answer
ErrorKinds == {"rate_limit", "connection", "auth", "bad_request"}

\* the Score line of an answer: the text after "Score:", or no such line
ScoreTexts == {"8", "11", "abc", "<no line>"}
IsIntText(t) == t \in {"8", "11"}
IntOf(t) == IF t = "8" THEN 8 ELSE 11

\* an answer: the text after each label ("" when the label is missing)
Answer(summary, score, issues, follow) ==
    [summary |-> summary, score |-> score, issues |-> issues, follow |-> follow]

GoodAnswer == Answer("Strong profile", "8", "None", "- Which stack?")
NoFollowUps == Answer("Strong profile", "8", "None", "")
OutOfRange == Answer("Strong profile", "11", "None", "- Which stack?")
BadScore == Answer("Strong profile", "abc", "", "- Which stack?")
NoLabels == Answer("", "<no line>", "", "")
Answers == {GoodAnswer, NoFollowUps, OutOfRange, BadScore, NoLabels}

Raises(kind) == [kind |-> kind, answer |-> NoLabels]
Answers_(answer) == [kind |-> "ok", answer |-> answer]
Outcomes(answers) == {Raises(k) : k \in ErrorKinds} \cup {Answers_(r) : r \in answers}

NoEvaluation == [summary |-> NullStr, score |-> NullNum, issues |-> NullStr,
                 follow_ups |-> NullStr]

\* scripts/llm_evaluator.py parse_llm_response
LLMEvaluator_parse_llm_response(r) ==
    [summary |-> r.summary,
     score |-> IF r.score = "<no line>" \/ ~IsIntText(r.score) THEN NullNum ELSE IntOf(r.score),
     issues |-> r.issues,
     follow_ups |-> IF r.follow = "" THEN NullStr ELSE r.follow]

\* The retry loops run one provider call per step; between two calls the
\* position of the loop is (attempt, delays slept so far, outcome of each call).
Loop(c, status, attempt, delays, kinds) ==
    [c |-> c, status |-> status, attempt |-> attempt, delays |-> delays, kinds |-> kinds]

Report(c, status) == Loop(c, status, 0, <<>>, <<>>)

\* scripts/llm_evaluator.py check_if_already_evaluated: a read that raises is "no"
check_if_already_evaluated(c, a, json_hash) ==
    LET t == table_get(c)
    IN IF t.exc THEN [c |-> Caught(t), already |-> FALSE]
       ELSE [c |-> t, already |-> Get(t.s.app[a], "JSON Hash", NoHash) = json_hash]

\* scripts/llm_evaluator.py process_applicant, up to the first provider call
LLMEvaluator_process_applicant(c0, a, json_data, force) ==
    LET json_hash == compute_json_hash(json_data)
        chk == IF force THEN [c |-> c0, already |-> FALSE]
               ELSE check_if_already_evaluated(c0, a, json_hash)
    IN IF chk.already THEN Report(chk.c, "skipped")
       ELSE Report(chk.c, "calling")

\* scripts/llm_evaluator.py __main__: one applicant id from the command line
LLMEvaluator_main(c0, a, force) ==
    LET c1 == table_get(c0)
        compressed_json == Get(c1.s.app[a], "Compressed JSON", EmptyText)
    IN IF c1.exc THEN Report(c1, "crash")
       ELSE IF compressed_json = EmptyText THEN Report(c1, "error")
       ELSE IF ~IsJson(compressed_json) THEN Report(c1, "crash")
       ELSE LLMEvaluator_process_applicant(c1, a, json_loads(compressed_json), force)

\* scripts/llm_evaluator.py update_applicant_with_llm_results
update_applicant_with_llm_results(c, a, evaluation, json_hash) ==
    applicants_update(c, a,
        [x \in {"LLM Summary", "LLM Score", "LLM Follow-Ups", "JSON Hash"}
               \cup (IF evaluation.issues \in {"", NullStr} THEN {} ELSE {"LLM Issues"}) |->
           CASE x = "LLM Summary" -> evaluation.summary
             [] x = "LLM Score" -> evaluation.score
             [] x = "LLM Follow-Ups" -> evaluation.follow_ups
             [] x = "JSON Hash" -> json_hash
             [] OTHER -> evaluation.issues])

\* Faulty variant of evaluate_with_llm: the delay does not double.
evaluate_with_llm_constant_delay(c, a, attempt, delays, kinds, o) ==
    LET parsed == LLMEvaluator_parse_llm_response(o.answer)
        parsedOk == ~(parsed.summary \in {"", NullStr}) /\ parsed.score # NullNum
        kind == IF o.kind # "ok" THEN o.kind
                ELSE IF parsedOk THEN "ok" ELSE "unparsable"
        json_hash == compute_json_hash(json_loads(c.s.app[a]["Compressed JSON"]))
        upd == update_applicant_with_llm_results(c, a, parsed, json_hash)
    IN IF kind = "ok"
       THEN Loop(upd, IF upd.exc THEN "crash" ELSE "success", attempt, delays,
                 Append(kinds, kind))
       ELSE IF attempt < LLM_RETRY_ATTEMPTS - 1
       THEN Loop(c, "calling", attempt + 1,
                 Append(delays, LLM_RETRY_DELAY), Append(kinds, kind))
       ELSE Loop(c, "error", attempt, delays, Append(kinds, kind))

\* scripts/llm_evaluator.py evaluate_with_llm, one pass of the loop body, and
\* the rest of process_applicant once the loop returns.  Every exception, the
\* parse failure included, is retried after LLM_RETRY_DELAY * 2^attempt.
LLMEvaluator_evaluate_with_llm(c, a, attempt, delays, kinds, o) ==
    LET parsed == LLMEvaluator_parse_llm_response(o.answer)
        parsedOk == ~(parsed.summary \in {"", NullStr}) /\ parsed.score # NullNum
        kind == IF o.kind # "ok" THEN o.kind
                ELSE IF parsedOk THEN "ok" ELSE "unparsable"
        json_hash == compute_json_hash(json_loads(c.s.app[a]["Compressed JSON"]))
        upd == update_applicant_with_llm_results(c, a, parsed, json_hash)
    IN IF kind = "ok"
       THEN Loop(upd, IF upd.exc THEN "crash" ELSE "success", attempt, delays,
                 Append(kinds, kind))
       ELSE IF attempt < LLM_RETRY_ATTEMPTS - 1
       THEN Loop(c, "calling", attempt + 1,
                 Append(delays, LLM_RETRY_DELAY * 2^attempt), Append(kinds, kind))
       ELSE Loop(c, "error", attempt, delays, Append(kinds, kind))

\* 05_llm_evaluator.py should_skip_evaluation
should_skip_evaluation(applicant_fields, force) ==
    IF force THEN FALSE
    ELSE LET has_summary == Get(applicant_fields, "LLM Summary", "") # ""
             has_score == Get(applicant_fields, "LLM Score", NullNum) # NullNum
             has_followups == Get(applicant_fields, "LLM Follow-Ups", "") # ""
         IN has_summary /\ has_score /\ has_followups

\* 05_llm_evaluator.py main, one pass of the loop over the applicants, up to
\* the first provider call
llm_evaluator_05_applicant(c1, fields, force) ==
    LET compressed_json_str == Get(fields, "Compressed JSON", EmptyText)
    IN IF compressed_json_str = EmptyText THEN Report(c1, "skipped_no_json")
       ELSE IF ~IsJson(compressed_json_str) THEN Report(c1, "error")
       ELSE IF should_skip_evaluation(fields, force) THEN Report(c1, "skipped")
       ELSE Report(c1, "calling")

\* 05_llm_evaluator.py main, one applicant (--id), up to the first provider call
llm_evaluator_05_main(c0, a, force) ==
    LET c1 == table_get(c0)
    IN IF c1.exc THEN Report(c1, "crash")
       ELSE llm_evaluator_05_applicant(c1, c1.s.app[a], force)

\* 05_llm_evaluator.py LLMEvaluation: the validated structured answer
LLMEvaluation_valid(r) ==
    IsIntText(r.score) /\ IntOf(r.score) >= 1 /\ IntOf(r.score) <= 10

SummaryWords(summary) == IF summary = "" THEN 0 ELSE 2
Truncated(summary) == IF SummaryWords(summary) > 75 THEN "<first 75 words>..." ELSE summary

\* 05_llm_evaluator.py call_openai_with_retry, one pass of the loop body, and
\* the rest of main's loop body once it returns.  RateLimitError sleeps on
\* every attempt; APIConnectionError and every other APIError (authentication
\* and bad-request errors are APIErrors) sleep unless it was the last attempt;
\* anything else returns None at once.
call_openai_with_retry_05(c, a, attempt, delays, kinds, o) ==
    LET kind == IF o.kind # "ok" THEN o.kind
                ELSE IF LLMEvaluation_valid(o.answer) THEN "ok" ELSE "unparsable"
        upd == applicants_update(c, a,
                   [x \in {"LLM Summary", "LLM Score", "LLM Follow-Ups"} |->
                      CASE x = "LLM Summary" -> Truncated(o.answer.summary)
                        [] x = "LLM Score" -> IntOf(o.answer.score)
                        [] OTHER -> o.answer.follow])
        slept == IF kind = "rate_limit" \/ attempt < max_retries - 1
                 THEN Append(delays, 2^attempt * 1) ELSE delays
    IN IF kind = "ok"
       THEN Loop(Caught(upd), IF upd.exc THEN "error" ELSE "success", attempt, delays,
                 Append(kinds, kind))
       ELSE IF kind = "unparsable"
       THEN Loop(c, "error", attempt, delays, Append(kinds, kind))
       ELSE IF attempt + 1 < max_retries
       THEN Loop(c, "calling", attempt + 1, slept, Append(kinds, kind))
       ELSE Loop(c, "error", attempt, slept, Append(kinds, kind))

\* src/llm_evaluator.py parse_llm_response: defaults instead of failures
parse_llm_response_src(r) ==
    [summary |-> r.summary,
     score |-> IF IsIntText(r.score) THEN IntOf(r.score) ELSE 0,
     issues |-> r.issues,
     follow_ups |-> r.follow]

\* src/llm_evaluator.py process_llm_evaluation, up to the first provider call;
\* evaluate_with_llm is called without previous_json, so nothing is skipped
process_llm_evaluation(c0, a) ==
    LET c1 == table_all(c0)                    \* get_applicant
        compressed_json == Get(c1.s.app[a], "Compressed JSON", EmptyText)
    IN IF c1.exc THEN Report(c1, "error")
       ELSE IF compressed_json = EmptyText THEN Report(c1, "error")
       ELSE Report(c1, "calling")

\* Faulty variant of call_openai_with_retry / process_llm_evaluation: when the
\* retries are exhausted the error text is saved as the summary.
call_openai_with_retry_saves_error(c, a, attempt, delays, kinds, o) ==
    LET evaluation == parse_llm_response_src(o.answer)
        upd == applicants_update(c, a,
                   [x \in {"LLM Summary", "LLM Score", "LLM Follow-Ups"} |->
                      CASE x = "LLM Summary" -> evaluation.summary
                        [] x = "LLM Score" -> evaluation.score
                        [] OTHER -> evaluation.follow_ups])
        err == applicants_update(c, a,
                   [x \in {"LLM Summary", "LLM Score"} |->
                      IF x = "LLM Summary" THEN "Evaluation failed" ELSE 0])
    IN IF o.kind = "ok"
       THEN Loop(upd, IF upd.exc THEN "error" ELSE "success", attempt, delays,
                 Append(kinds, "ok"))
       ELSE IF attempt < max_retries - 1
       THEN Loop(c, "calling", attempt + 1,
                 Append(delays, initial_delay * 2^attempt), Append(kinds, o.kind))
       ELSE Loop(Caught(err), "error", attempt, delays, Append(kinds, o.kind))

\* src/llm_evaluator.py call_openai_with_retry, one pass of the loop body, and
\* the rest of process_llm_evaluation once it returns
call_openai_with_retry_src(c, a, attempt, delays, kinds, o) ==
    LET evaluation == parse_llm_response_src(o.answer)
        upd == applicants_update(c, a,
                   [x \in {"LLM Summary", "LLM Score", "LLM Follow-Ups"} |->
                      CASE x = "LLM Summary" -> evaluation.summary
                        [] x = "LLM Score" -> evaluation.score
                        [] OTHER -> evaluation.follow_ups])
    IN IF o.kind = "ok"
       THEN Loop(upd, IF upd.exc THEN "error" ELSE "success", attempt, delays,
                 Append(kinds, "ok"))
       ELSE IF attempt < max_retries - 1
       THEN Loop(c, "calling", attempt + 1,
                 Append(delays, initial_delay * 2^attempt), Append(kinds, o.kind))
       ELSE Loop(c, "error", attempt, delays, Append(kinds, o.kind))

(***************************************************************************)
(* Materialization (decompress): Compressed JSON -> child tables.          *)
(***************************************************************************)
RECURSIVE delete_each(_, _, _)
delete_each(c, tbl, records) ==
    IF records = <<>> THEN c
    ELSE delete_each(table_delete(c, tbl, Head(records).id), tbl, Tail(records))

RECURSIVE create_each(_, _, _, _)
create_each(c, tbl, a, fieldsList) ==
    IF fieldsList = <<>> THEN c
    ELSE create_each(table_create(c, tbl, a, Head(fieldsList)), tbl, a, Tail(fieldsList))

Truthy(d) == d # EmptyDict

\* a JSON value that is not an object (a string, a number) among the entries of
\* a list: x.get(...) on it raises AttributeError
Scalar(text) == [scalar |-> text]
IsObject(x) == "scalar" \notin DOMAIN x
AllObjects(list) == \A i \in 1..Len(list) : IsObject(list[i])
\* the entries a loop over the list handles before x.get raises
RECURSIVE ObjectsPrefix(_)
ObjectsPrefix(list) ==
    IF list = <<>> \/ ~IsObject(Head(list)) THEN <<>>
    ELSE <<Head(list)>> \o ObjectsPrefix(Tail(list))
Raise(c) == [c EXCEPT !.exc = TRUE]

personal_fields(personal_data) ==
    [x \in {"Full Name", "Email", "Location", "LinkedIn"} |->
       CASE x = "Full Name" -> Get(personal_data, "name", "")
         [] x = "Email" -> Get(personal_data, "email", "")
         [] x = "Location" -> Get(personal_data, "location", "")
         [] OTHER -> Get(personal_data, "linkedin", "")]

exp_fields(exp) ==
    [x \in {"Company", "Title", "Start", "End", "Technologies"} |->
       CASE x = "Company" -> Get(exp, "company", "")
         [] x = "Title" -> Get(exp, "title", "")
         [] x = "Start" -> Get(exp, "start", "")
         [] x = "End" -> Get(exp, "end", "")
         [] OTHER -> Get(exp, "technologies", "")]

\* Faulty variant of the salary mapping: the preferred rate is read from the
\* key 'rate', which the snapshot of 03_compress_data.py does not have.
salary_fields_rate_key(salary_data) ==
    [x \in {"Preferred Rate", "Minimum Rate", "Currency", "Availability (hrs/wk)"} |->
       CASE x = "Preferred Rate" -> Get(salary_data, "rate", 0)
         [] x = "Minimum Rate" -> Get(salary_data, "minimum_rate", 0)
         [] x = "Currency" -> Get(salary_data, "currency", "USD")
         [] OTHER -> Get(salary_data, "availability", 0)]

\* decompress_data.py, src/json_decompressor.py: the Salary Preferences fields
salary_fields(salary_data) ==
    [x \in {"Preferred Rate", "Minimum Rate", "Currency", "Availability (hrs/wk)"} |->
       CASE x = "Preferred Rate" -> Get(salary_data, "preferred_rate", 0)
         [] x = "Minimum Rate" -> Get(salary_data, "minimum_rate", 0)
         [] x = "Currency" -> Get(salary_data, "currency", "USD")
         [] OTHER -> Get(salary_data, "availability", 0)]

\* scripts/decompress.py upsert_salary_preferences reads the key 'rate' and
\* has no default for the numbers
salary_fields_scripts(salary_data) ==
    [x \in {"Preferred Rate", "Minimum Rate", "Currency", "Availability (hrs/wk)"} |->
       CASE x = "Preferred Rate" -> Get(salary_data, "rate", NullNum)
         [] x = "Minimum Rate" -> Get(salary_data, "minimum_rate", NullNum)
         [] x = "Currency" -> Get(salary_data, "currency", "USD")
         [] OTHER -> Get(salary_data, "availability", NullNum)]

Section(data, key, dflt) == Get(data, key, dflt)

\* decompress_data.py find_existing_record: a read that raises finds nothing
find_existing_record(c, tbl, a) ==
    LET t == table_all(c)
        found == Linked(t.s[tbl], a)
    IN IF t.exc THEN [c |-> Caught(t), existing |-> <<>>]
       ELSE [c |-> t, existing |-> found]

\* Faulty variant of the one-to-one upsert: the dry-run flag is not looked at.
decompress_one_to_one_ignores_dry_run(c0, tbl, a, fields, dry_run) ==
    LET f == find_existing_record(c0, tbl, a)
        w == IF f.existing # <<>>
             THEN table_update(f.c, tbl, f.existing[1].id, a, fields)
             ELSE table_create(f.c, tbl, a, fields)
        op == IF f.existing # <<>> THEN "update" ELSE "create"
    IN [c |-> Caught(w), ok |-> ~w.exc, log |-> IF w.exc THEN "failed" ELSE op]

\* decompress_data.py decompress_personal_details / decompress_salary_preferences
decompress_one_to_one(c0, tbl, a, fields, dry_run) ==
    LET f == find_existing_record(c0, tbl, a)
        w == IF f.existing # <<>>
             THEN table_update(f.c, tbl, f.existing[1].id, a, fields)
             ELSE table_create(f.c, tbl, a, fields)
        op == IF f.existing # <<>> THEN "update" ELSE "create"
    IN IF dry_run THEN [c |-> f.c, ok |-> TRUE, log |-> op]      \* "Would UPDATE / CREATE"
       ELSE [c |-> Caught(w), ok |-> ~w.exc, log |-> IF w.exc THEN "failed" ELSE op]

\* what decompress_work_experience prints: records deleted, records created
\* (-1 when the line is not reached), company and title of each new record
WorkLog(deleted, created, entries) ==
    [deleted |-> deleted, created |-> created, entries |-> entries]
NoWorkLog == WorkLog(-1, -1, <<>>)

\* Faulty variant of the Work Experience replacement: the dry run counts every
\* record of the table, not the applicant's.
decompress_work_experience_counts_table(c0, a, experience_data, dry_run) ==
    LET t == table_all(c0)
        existing_records == Linked(t.s.we, a)
        d == delete_each(t, "we", existing_records)
        objects == ObjectsPrefix(experience_data)
        bad == ~AllObjects(experience_data)         \* exp.get raises within the try
        w == create_each(d, "we", a, [i \in 1..Len(objects) |-> exp_fields(objects[i])])
    IN IF t.exc THEN [c |-> Caught(t), ok |-> FALSE, log |-> NoWorkLog]
       ELSE IF dry_run
       THEN [c |-> t, ok |-> ~bad,
             log |-> WorkLog(Len(t.s.we), Len(experience_data),
                             [i \in 1..Len(objects) |->
                                <<Get(objects[i], "company", NullStr),
                                  Get(objects[i], "title", NullStr)>>])]
       ELSE [c |-> Caught(w), ok |-> ~w.exc /\ ~bad,
             log |-> IF d.exc THEN NoWorkLog
                     ELSE IF w.exc \/ bad THEN WorkLog(Len(existing_records), -1, <<>>)
                     ELSE WorkLog(Len(existing_records), Len(experience_data),
                                  [i \in 1..Len(objects) |->
                                     <<exp_fields(objects[i])["Company"],
                                       exp_fields(objects[i])["Title"]>>])]

\* decompress_data.py decompress_work_experience
decompress_work_experience(c0, a, experience_data, dry_run) ==
    LET t == table_all(c0)
        existing_records == Linked(t.s.we, a)
        d == delete_each(t, "we", existing_records)
        objects == ObjectsPrefix(experience_data)
        bad == ~AllObjects(experience_data)         \* exp.get raises within the try
        w == create_each(d, "we", a, [i \in 1..Len(objects) |-> exp_fields(objects[i])])
    IN IF t.exc THEN [c |-> Caught(t), ok |-> FALSE, log |-> NoWorkLog]
       ELSE IF dry_run
       THEN [c |-> t, ok |-> ~bad,                  \* "Would DELETE n", "Would CREATE m", "- company (title)"
             log |-> WorkLog(Len(existing_records), Len(experience_data),
                             [i \in 1..Len(objects) |->
                                <<Get(objects[i], "company", NullStr),
                                  Get(objects[i], "title", NullStr)>>])]
       ELSE [c |-> Caught(w), ok |-> ~w.exc /\ ~bad,
             log |-> IF d.exc THEN NoWorkLog
                     ELSE IF w.exc \/ bad THEN WorkLog(Len(existing_records), -1, <<>>)
                     ELSE WorkLog(Len(existing_records), Len(experience_data),
                                  [i \in 1..Len(objects) |->
                                     <<exp_fields(objects[i])["Company"],
                                       exp_fields(objects[i])["Title"]>>])]

Sections(c, status, personal, work, salary) ==
    [c |-> c, status |-> status, personal |-> personal, work |-> work, salary |-> salary]

Flag(ok) == IF ok THEN "ok" ELSE "failed"

\* the lines a materialization printed about its operations
OperationLog(personal, work, salary) == [personal |-> personal, work |-> work, salary |-> salary]
NoLog == OperationLog("none", NoWorkLog, "none")
Logged(r, log) == [x \in DOMAIN r \cup {"log"} |-> IF x = "log" THEN log ELSE r[x]]

\* decompress_data.py main, one pass of the loop over the applicants
decompress_data_applicant(c1, a, compressed_json_str, dry_run) ==
    LET applicant_data == json_loads(compressed_json_str)
        p == decompress_one_to_one(c1, "pd", a,
                 personal_fields(Section(applicant_data, "personal", EmptyDict)), dry_run)
        w == decompress_work_experience(p.c, a,
                 Section(applicant_data, "experience", <<>>), dry_run)
        s == decompress_one_to_one(w.c, "sp", a,
                 salary_fields(Section(applicant_data, "salary", EmptyDict)), dry_run)
    IN IF compressed_json_str = EmptyText
       THEN Logged(Sections(c1, "skipped", "none", "none", "none"), NoLog)
       ELSE IF ~IsJson(compressed_json_str)
       THEN Logged(Sections(c1, "error", "none", "none", "none"), NoLog)
       ELSE Logged(Sections(s.c, IF p.ok /\ w.ok /\ s.ok THEN "success" ELSE "error",
                            Flag(p.ok), Flag(w.ok), Flag(s.ok)),
                   OperationLog(p.log, w.log, s.log))

\* decompress_data.py main, one applicant (--id)
decompress_data_main(c0, a, dry_run) ==
    LET c1 == table_get(c0)
    IN IF c1.exc THEN Logged(Sections(c1, "crash", "none", "none", "none"), NoLog)
       ELSE decompress_data_applicant(c1, a, Get(c1.s.app[a], "Compressed JSON", EmptyText),
                                      dry_run)

\* src/airtable_client.py upsert_personal_details / upsert_salary_preferences
AirtableClient_upsert(c0, tbl, a, fields) ==
    LET t == table_all(c0)
        existing == Linked(t.s[tbl], a)
    IN IF existing # <<>> THEN table_update(t, tbl, existing[1].id, a, fields)
       ELSE table_create(t, tbl, a, fields)

\* Faulty variant of the replacement: every record of the table is taken for
\* the applicant's.
AirtableClient_upsert_work_experiences_whole_table(c0, a, experiences) ==
    LET t == table_all(c0)
        existing_experiences == t.s.we
    IN create_each(delete_each(t, "we", existing_experiences), "we", a, experiences)

\* src/airtable_client.py upsert_work_experiences
AirtableClient_upsert_work_experiences(c0, a, experiences) ==
    LET t == table_all(c0)
        existing_experiences == Linked(t.s.we, a)
    IN create_each(delete_each(t, "we", existing_experiences), "we", a, experiences)

\* src/json_decompressor.py: the three sections of decompress_applicant_data and
\* of decompress_from_json_string; an empty section is left out
upsert_sections_src(c0, a, data) ==
    LET personal == Section(data, "personal", EmptyDict)
        experience == Section(data, "experience", <<>>)
        salary == Section(data, "salary", EmptyDict)
        p == IF Truthy(personal)
             THEN AirtableClient_upsert(c0, "pd", a, personal_fields(personal)) ELSE c0
        w == IF experience = <<>> THEN p
             ELSE IF ~AllObjects(experience) THEN Raise(p)   \* exp.get raises before the upsert
             ELSE AirtableClient_upsert_work_experiences(p, a,
                      [i \in 1..Len(experience) |-> exp_fields(experience[i])])
        s == IF Truthy(salary)
             THEN AirtableClient_upsert(w, "sp", a, salary_fields(salary)) ELSE w
    IN Sections(s, IF s.exc THEN "error" ELSE "success",
                IF ~Truthy(personal) THEN "none" ELSE Flag(~p.exc),
                IF p.exc \/ experience = <<>> THEN "none" ELSE Flag(~w.exc),
                IF w.exc \/ ~Truthy(salary) THEN "none" ELSE Flag(~s.exc))

\* src/json_decompressor.py decompress_applicant_data
decompress_applicant_data_src(c0, a) ==
    LET c1 == table_all(c0)                    \* get_applicant
        compressed_json == Get(c1.s.app[a], "Compressed JSON", EmptyText)
    IN IF c1.exc \/ compressed_json = EmptyText \/ ~IsJson(compressed_json)
       THEN Sections(c1, "error", "none", "none", "none")
       ELSE upsert_sections_src(c1, a, json_loads(compressed_json))

\* src/json_decompressor.py decompress_from_json_string: the supplied text is
\* first saved as the applicant's Compressed JSON
decompress_from_json_string(c0, a, json_string) ==
    LET c1 == table_all(c0)                    \* get_applicant
        c2 == applicants_update(c1, a, [x \in {"Compressed JSON"} |-> json_string])
    IN IF c1.exc \/ ~IsJson(json_string)
       THEN Sections(c1, "error", "none", "none", "none")
       ELSE IF c2.exc THEN Sections(c2, "error", "none", "none", "none")
       ELSE upsert_sections_src(c2, a, json_loads(json_string))

\* scripts/decompress.py get_existing_linked_records + update-or-create
DataDecompressor_upsert(c0, tbl, a, fields) ==
    LET e == get_linked_records(c0, tbl, a)
    IN IF e.records # <<>> THEN table_update(e.c, tbl, e.records[1].id, a, fields)
       ELSE table_create(e.c, tbl, a, fields)

\* scripts/decompress.py upsert_work_experience
DataDecompressor_upsert_work_experience(c0, a, experience_list) ==
    LET e == get_linked_records(c0, "we", a)
        objects == ObjectsPrefix(experience_list)
        w == create_each(delete_each(e.c, "we", e.records), "we", a,
                 [i \in 1..Len(objects) |-> exp_fields(objects[i])])
    IN IF experience_list = <<>> THEN c0
       ELSE IF AllObjects(experience_list) THEN w
       ELSE Raise(w)                                 \* exp.get raises in the create loop

\* scripts/decompress.py decompress_applicant_data
DataDecompressor_decompress_applicant_data(c0, a, json_data) ==
    LET personal == Section(json_data, "personal", EmptyDict)
        experience == Section(json_data, "experience", <<>>)
        salary == Section(json_data, "salary", EmptyDict)
        p == IF Truthy(personal)
             THEN DataDecompressor_upsert(c0, "pd", a, personal_fields(personal)) ELSE c0
        w == DataDecompressor_upsert_work_experience(p, a, experience)
        s == IF Truthy(salary)
             THEN DataDecompressor_upsert(w, "sp", a, salary_fields_scripts(salary)) ELSE w
    IN Sections(s, IF s.exc THEN "error" ELSE "success",
                IF ~Truthy(personal) THEN "none" ELSE Flag(~p.exc),
                IF p.exc \/ experience = <<>> THEN "none" ELSE Flag(~w.exc),
                IF w.exc \/ ~Truthy(salary) THEN "none" ELSE Flag(~s.exc))

\* scripts/decompress.py process_applicant without --json-file
DataDecompressor_process_applicant(c0, a) ==
    LET c1 == table_get(c0)
        compressed_json == Get(c1.s.app[a], "Compressed JSON", EmptyText)
    IN IF c1.exc \/ compressed_json = EmptyText \/ ~IsJson(compressed_json)
       THEN Sections(Caught(c1), "error", "none", "none", "none")
       ELSE DataDecompressor_decompress_applicant_data(c1, a, json_loads(compressed_json))

(***************************************************************************)
(* Text.  Python's str methods on TLA+ strings, character by character.    *)
(***************************************************************************)
UpperCase == "ABCDEFGHIJKLMNOPQRSTUVWXYZ"
LowerCase == "abcdefghijklmnopqrstuvwxyz"
Digits == "0123456789"

Char(s, i) == SubSeq(s, i, i)
Rest(s) == SubSeq(s, 2, Len(s))

IndexIn(alphabet, ch) ==
    IF \E i \in 1..Len(alphabet) : Char(alphabet, i) = ch
    THEN CHOOSE i \in 1..Len(alphabet) : Char(alphabet, i) = ch
    ELSE 0

LowerChar(ch) == IF IndexIn(UpperCase, ch) > 0 THEN Char(LowerCase, IndexIn(UpperCase, ch)) ELSE ch
UpperChar(ch) == IF IndexIn(LowerCase, ch) > 0 THEN Char(UpperCase, IndexIn(LowerCase, ch)) ELSE ch
IsAlpha(ch) == IndexIn(UpperCase, ch) > 0 \/ IndexIn(LowerCase, ch) > 0
IsDigit(ch) == IndexIn(Digits, ch) > 0

\* str.lower()
RECURSIVE str_lower(_)
str_lower(s) == IF s = "" THEN "" ELSE LowerChar(Char(s, 1)) \o str_lower(Rest(s))

\* str.upper()
RECURSIVE str_upper(_)
str_upper(s) == IF s = "" THEN "" ELSE UpperChar(Char(s, 1)) \o str_upper(Rest(s))

\* str.strip()
RECURSIVE str_strip(_)
str_strip(s) ==
    IF s = "" THEN ""
    ELSE IF Char(s, 1) = " " THEN str_strip(Rest(s))
    ELSE IF Char(s, Len(s)) = " " THEN str_strip(SubSeq(s, 1, Len(s) - 1))
    ELSE s

\* str.title(): a letter that follows a letter is lowered, any other is raised
RECURSIVE title_from(_, _)
title_from(s, afterLetter) ==
    IF s = "" THEN ""
    ELSE (IF afterLetter THEN LowerChar(Char(s, 1)) ELSE UpperChar(Char(s, 1)))
         \o title_from(Rest(s), IsAlpha(Char(s, 1)))
str_title(s) == title_from(s, FALSE)

\* str.replace(a, b) for a one-character a
RECURSIVE str_replace(_, _, _)
str_replace(s, a, b) ==
    IF s = "" THEN ""
    ELSE (IF Char(s, 1) = a THEN b ELSE Char(s, 1)) \o str_replace(Rest(s), a, b)

\* str.split(): the words between runs of blanks
RECURSIVE split_from(_, _)
split_from(s, word) ==
    IF s = "" THEN (IF word = "" THEN <<>> ELSE <<word>>)
    ELSE IF Char(s, 1) = " "
    THEN (IF word = "" THEN <<>> ELSE <<word>>) \o split_from(Rest(s), "")
    ELSE split_from(Rest(s), word \o Char(s, 1))
str_split(s) == split_from(s, "")

\* t in s
Contains(s, t) == \E i \in 0..(Len(s) - Len(t)) : SubSeq(s, i + 1, i + Len(t)) = t

\* bool(x) of a text slot and of a number slot
TruthyStr(x) == x # NullStr /\ x # ""
TruthyNum(x) == x # NullNum /\ x # 0

(***************************************************************************)
(* Dates.  A date is the number of days since 1970-01-01; every run        *)
(* happens on the day Today.                                               *)
(***************************************************************************)
Today == "2025-06-01"

RECURSIVE NumOf(_)
NumOf(s) == IF s = "" THEN 0
            ELSE NumOf(SubSeq(s, 1, Len(s) - 1)) * 10 + (IndexIn(Digits, Char(s, Len(s))) - 1)

IsLeap(y) == (y % 4 = 0 /\ y % 100 # 0) \/ y % 400 = 0
DaysInMonth(y, m) == IF m = 2 THEN (IF IsLeap(y) THEN 29 ELSE 28)
                     ELSE IF m \in {4, 6, 9, 11} THEN 30 ELSE 31

YearOf(s) == NumOf(SubSeq(s, 1, 4))
MonthOf(s) == NumOf(SubSeq(s, 6, 7))
DayOf(s) == NumOf(SubSeq(s, 9, 10))

\* the texts strptime(s, "%Y-%m-%d") and dateutil's parse both accept, among
\* the texts the model uses
IsIsoDate(s) ==
    /\ s # NullStr
    /\ Len(s) = 10
    /\ \A i \in 1..10 : IF i \in {5, 8} THEN Char(s, i) = "-" ELSE IsDigit(Char(s, i))
    /\ MonthOf(s) \in 1..12
    /\ DayOf(s) \in 1..DaysInMonth(YearOf(s), MonthOf(s))

DaysFromCivil(y, m, d) ==
    LET yy == IF m <= 2 THEN y - 1 ELSE y
        era == yy \div 400
        yoe == yy - era * 400
        mp == IF m > 2 THEN m - 3 ELSE m + 9
        doy == (153 * mp + 2) \div 5 + d - 1
        doe == yoe * 365 + yoe \div 4 - yoe \div 100 + doy
    IN era * 146097 + doe - 719468

DayNumber(s) == DaysFromCivil(YearOf(s), MonthOf(s), DayOf(s))

\* round(n / d) to the nearest integer, ties to the even one
RoundHalfEven(n, d) ==
    LET q == n \div d
        r == n % d
    IN IF 2 * r > d THEN q + 1
       ELSE IF 2 * r < d THEN q
       ELSE IF q % 2 = 0 THEN q ELSE q + 1

\* relativedelta(end, start): whole months from start to end, signed
MonthsBetween(startText, endText) ==
    LET raw == (YearOf(endText) - YearOf(startText)) * 12
               + (MonthOf(endText) - MonthOf(startText))
        \* start + n months, the day clamped to the month's length
        Shifted(n) == LET idx == YearOf(startText) * 12 + (MonthOf(startText) - 1) + n
                          y == idx \div 12
                          m == (idx % 12) + 1
                          d == IF DayOf(startText) > DaysInMonth(y, m)
                               THEN DaysInMonth(y, m) ELSE DayOf(startText)
                      IN DaysFromCivil(y, m, d)
        endDay == DayNumber(endText)
    IN IF endDay < DayNumber(startText)
       THEN (IF endDay > Shifted(raw) THEN raw + 1 ELSE raw)
       ELSE (IF endDay < Shifted(raw) THEN raw - 1 ELSE raw)

(***************************************************************************)
(* Evaluation (shortlist): Compressed JSON -> qualifies, reasons ->        *)
(* Shortlist Status and a Shortlisted Leads record.                        *)
(***************************************************************************)
\* str(n) of an integer
RECURSIVE NumText(_)
NumText(n) == IF n < 0 THEN "-" \o NumText(0 - n)
              ELSE IF n < 10 THEN Char(Digits, n + 1)
              ELSE NumText(n \div 10) \o Char(Digits, (n % 10) + 1)

\* a number of tenths or hundredths as "{x:.1f}" and "{x:.2f}" print it
RECURSIVE Tenths(_)
Tenths(n) == IF n < 0 THEN "-" \o Tenths(0 - n)
             ELSE NumText(n \div 10) \o "." \o NumText(n % 10)

\* repr of a float that was rounded to two decimals, given in hundredths
Hundredths(n) == IF n % 10 = 0 THEN Tenths(n \div 10)
                 ELSE NumText(n \div 100) \o "." \o NumText((n % 100) \div 10)
                      \o NumText(n % 10)

\* one criterion's verdict: the flag and the words of the reason
Verdict(passes, reason) == [passes |-> passes, reason |-> reason]

\* what an evaluator returns, or that it raised
Evaluation(experience, compensation, location) ==
    [raised |-> FALSE,
     qualifies |-> experience.passes /\ compensation.passes /\ location.passes,
     experience |-> experience, compensation |-> compensation, location |-> location]
EvaluationRaised ==
    [raised |-> TRUE, qualifies |-> FALSE, experience |-> Verdict(FALSE, <<>>),
     compensation |-> Verdict(FALSE, <<>>), location |-> Verdict(FALSE, <<>>)]

\* sum of f over the entries of a list
RECURSIVE Sum(_)
Sum(numbers) == IF numbers = <<>> THEN 0 ELSE Head(numbers) + Sum(Tail(numbers))
SumOver(list, f(_)) == Sum([i \in 1..Len(list) |-> f(list[i])])

\* ---- 04_shortlist_evaluator.py -----------------------------------------
TIER1_COMPANIES == <<"google", "meta", "openai", "microsoft", "amazon", "apple",
                     "netflix", "tesla", "spacex", "uber", "airbnb", "stripe">>

APPROVED_LOCATIONS ==
    {"united states", "usa", "us ", " us", "america", "american",
     "new york", "nyc", "san francisco", "sf", "los angeles", "la",
     "seattle", "wa", "austin", "tx", "boston", "ma", "chicago", "il",
     "canada", "canadian", "ca ",
     "toronto", "on", "vancouver", "bc", "montreal", "qc",
     "united kingdom", "uk ", " uk", "britain", "british", "england", "scotland", "wales",
     "london", "manchester", "birmingham", "edinburgh",
     "germany", "deutschland", "german", "de ",
     "berlin", "munich", "hamburg", "frankfurt", "cologne",
     "india", "indian", "in ",
     "bangalore", "bengaluru", "mumbai", "delhi", "new delhi", "hyderabad", "chennai", "pune"}

APPROVED_COUNTRY_CODES == {"us", "usa", "can", "ca", "uk", "gb", "de", "deu", "in", "ind"}

\* calculate_years_of_experience, one job: its days, counted in half days
\* (the cap of 50 years is 18262.5 days); 0 when the entry is skipped
job_half_days_04(job) ==
    LET start == Get(job, "start", "")
        end == Get(job, "end", "")
        start_str == str_strip(start)
        end_str == str_strip(end)
        now == DayNumber(Today)
        open == end_str = "" \/ str_lower(end_str) \in {"present", "current", "ongoing", "now"}
        endDay == IF open THEN now ELSE DayNumber(end_str)
        days == endDay - DayNumber(start_str)
    IN IF start = NullStr \/ end = NullStr THEN 0         \* None.strip() raises: caught
       ELSE IF start_str = "" THEN 0
       ELSE IF ~IsIsoDate(start_str) THEN 0               \* parse raises: caught
       ELSE IF ~open /\ ~IsIsoDate(end_str) THEN 0
       ELSE IF DayNumber(start_str) > now THEN 0
       ELSE IF endDay < DayNumber(start_str) THEN 0
       ELSE IF 2 * days > 36525 THEN 36525
       ELSE 2 * days

\* calculate_years_of_experience: total_days, in half days
calculate_years_of_experience_04(experience_list) ==
    SumOver(experience_list, job_half_days_04)

\* years as "{years:.1f}" prints it, in tenths
YearsTenths04(half_days) == RoundHalfEven(half_days * 20, 1461)

\* check_tier1_company: the first job whose lowered company contains a name
check_tier1_company(experience_list) ==
    LET hit(job) == \E i \in 1..Len(TIER1_COMPANIES) :
                        Contains(str_lower(Get(job, "company", "")), TIER1_COMPANIES[i])
        none(job) == Get(job, "company", "") = NullStr          \* None.lower() raises
        stops == {i \in 1..Len(experience_list) :
                     none(experience_list[i]) \/ hit(experience_list[i])}
        first == CHOOSE i \in stops : \A j \in stops : i <= j
    IN IF stops = {} THEN [raised |-> FALSE, has_tier1 |-> FALSE, company |-> NullStr]
       ELSE IF none(experience_list[first])
       THEN [raised |-> TRUE, has_tier1 |-> FALSE, company |-> NullStr]
       ELSE [raised |-> FALSE, has_tier1 |-> TRUE,
             company |-> Get(experience_list[first], "company", "")]

\* check_location
check_location(location_str) ==
    LET location_lower == str_strip(str_lower(location_str))
        location_words == str_split(str_replace(str_replace(location_lower, ",", " "), ".", " "))
        padded_location == " " \o location_lower \o " "
    IN IF ~TruthyStr(location_str) THEN FALSE
       ELSE IF \E b \in {"australia", "austria", "indonesia", "indiana"} :
                   Contains(location_lower, b) THEN FALSE
       ELSE IF \E i \in 1..Len(location_words) : location_words[i] \in APPROVED_COUNTRY_CODES
       THEN TRUE
       ELSE \E approved \in APPROVED_LOCATIONS :
                \/ Contains(padded_location, " " \o approved \o " ")
                \/ Contains(padded_location, " " \o approved \o ",")
                \/ Contains(padded_location, "," \o approved \o " ")

\* evaluate_applicant
evaluate_applicant_04(applicant_data) ==
    LET experience_list == Get(applicant_data, "experience", <<>>)
        half_days == calculate_years_of_experience_04(experience_list)
        tier1 == check_tier1_company(experience_list)
        salary == Get(applicant_data, "salary", EmptyDict)
        preferred_rate == Get(salary, "preferred_rate", 999)
        availability == Get(salary, "availability", 0)
        personal == Get(applicant_data, "personal", EmptyDict)
        location == Get(personal, "location", "")
        experience ==
            IF half_days >= 2922 THEN Verdict(TRUE, <<Tenths(YearsTenths04(half_days)), "years total experience">>)
            ELSE IF tier1.has_tier1 THEN Verdict(TRUE, <<"Worked at", tier1.company, "(tier-1 company)">>)
            ELSE Verdict(FALSE, <<"Only", Tenths(YearsTenths04(half_days)), "years and no tier-1 company">>)
        compensation ==
            IF preferred_rate <= 100 /\ availability >= 20
            THEN Verdict(TRUE, <<NumText(preferred_rate), "/hr", NumText(availability), "hrs/wk">>)
            ELSE Verdict(FALSE, (IF preferred_rate > 100
                                 THEN <<"rate", NumText(preferred_rate), "/hr >$100">> ELSE <<>>)
                                \o (IF availability < 20
                                    THEN <<"availability", NumText(availability), "hrs/wk <20">>
                                    ELSE <<>>))
        loc == IF check_location(location)
               THEN Verdict(TRUE, <<location, "approved region">>)
               ELSE Verdict(FALSE, <<location, "not in approved regions">>)
    IN IF tier1.raised THEN EvaluationRaised
       ELSE IF preferred_rate = NullNum \/ availability = NullNum
       THEN EvaluationRaised                         \* None <= 100
       ELSE Evaluation(experience, compensation, loc)

\* generate_score_reason
generate_score_reason(ev) ==
    IF ev.qualifies
    THEN <<<<"Candidate qualifies for shortlist:">>,
           <<"- Experience:">> \o ev.experience.reason,
           <<"- Compensation:">> \o ev.compensation.reason,
           <<"- Location:">> \o ev.location.reason>>
    ELSE <<<<"Candidate does NOT qualify:">>>>
         \o (IF ev.experience.passes THEN <<>>
             ELSE <<<<"- Experience:">> \o ev.experience.reason>>)
         \o (IF ev.compensation.passes THEN <<>>
             ELSE <<<<"- Compensation:">> \o ev.compensation.reason>>)
         \o (IF ev.location.passes THEN <<>>
             ELSE <<<<"- Location:">> \o ev.location.reason>>)

\* ---- src/shortlist_evaluator.py ------------------------------------------
TIER_1_COMPANIES == {"Google", "Meta", "OpenAI", "Microsoft", "Amazon", "Apple",
                     "Netflix", "Tesla", "SpaceX", "Uber", "Airbnb", "Stripe",
                     "Facebook"}

ALLOWED_LOCATIONS == {"US", "USA", "United States", "Canada", "UK", "United Kingdom",
                      "Germany", "India"}

\* normalize_company_name
normalize_company_name_src(company) == str_lower(str_strip(company))

\* is_tier_1_company: equality of the normalized names
is_tier_1_company(company) ==
    \E tier1 \in TIER_1_COMPANIES :
        normalize_company_name_src(tier1) = normalize_company_name_src(company)

\* is_allowed_location
is_allowed_location(location) ==
    \E allowed \in ALLOWED_LOCATIONS :
        Contains(str_lower(str_strip(location)), str_lower(allowed))

\* calculate_years_of_experience, one entry: its days, 0 when it is skipped
exp_days_src(exp) ==
    LET start_str == Get(exp, "start", "")
        end_str == Get(exp, "end", "")
        end_day == IF TruthyStr(end_str) THEN DayNumber(end_str) ELSE DayNumber(Today)
        days == end_day - DayNumber(start_str)
    IN IF ~TruthyStr(start_str) THEN 0
       ELSE IF ~IsIsoDate(start_str) THEN 0               \* strptime raises: caught
       ELSE IF TruthyStr(end_str) /\ ~IsIsoDate(end_str) THEN 0
       ELSE IF days > 0 THEN days ELSE 0

\* calculate_years_of_experience: round(total_days / 365.25, 2), in hundredths
calculate_years_of_experience_src(experiences) ==
    RoundHalfEven(SumOver(experiences, exp_days_src) * 400, 1461)

\* evaluate_experience_criteria
evaluate_experience_criteria(data) ==
    LET experiences == Get(data, "experience", <<>>)
        years == calculate_years_of_experience_src(experiences)
        worked == SelectSeq(experiences, LAMBDA exp : is_tier_1_company(Get(exp, "company", "")))
        names == [i \in 1..Len(worked) |-> Get(worked[i], "company", "")]
    IN IF experiences = <<>> THEN Verdict(FALSE, <<"No work experience provided">>)
       ELSE IF years >= 400
       THEN Verdict(TRUE, <<Hundredths(years), "years of experience">>)
       ELSE IF worked # <<>> THEN Verdict(TRUE, <<"Worked at tier-1 company:">> \o names)
       ELSE Verdict(FALSE, <<"Only", Hundredths(years),
                             "years of experience and no tier-1 company">>)

\* evaluate_compensation_criteria
evaluate_compensation_criteria(data) ==
    LET salary == Get(data, "salary", EmptyDict)
        preferred_rate == Get(salary, "preferred_rate", 0)
        currency == Get(salary, "currency", "USD")
        availability == Get(salary, "availability", 0)
    IN IF salary = EmptyDict THEN Verdict(FALSE, <<"No salary preferences provided">>)
       ELSE IF currency # "USD" THEN Verdict(FALSE, <<"Currency is", currency, "not USD">>)
       ELSE IF preferred_rate <= 100 /\ availability >= 20
       THEN Verdict(TRUE, <<NumText(preferred_rate), "/hr", NumText(availability), "hrs/week">>)
       ELSE IF preferred_rate > 100
       THEN Verdict(FALSE, <<"Preferred rate", NumText(preferred_rate), "exceeds $100/hr">>)
       ELSE Verdict(FALSE, <<"Availability", NumText(availability), "is less than 20 hrs/week">>)

\* evaluate_location_criteria
evaluate_location_criteria(data) ==
    LET personal == Get(data, "personal", EmptyDict)
        location == Get(personal, "location", "")
    IN IF personal = EmptyDict THEN Verdict(FALSE, <<"No personal details provided">>)
       ELSE IF ~TruthyStr(location) THEN Verdict(FALSE, <<"No location provided">>)
       ELSE IF is_allowed_location(location) THEN Verdict(TRUE, <<"Location:", location>>)
       ELSE Verdict(FALSE, <<"Location", location, "not in allowed regions">>)

\* evaluate_for_shortlist; None.strip() on a company and None <= 100 raise
evaluate_for_shortlist(data) ==
    LET experiences == Get(data, "experience", <<>>)
        salary == Get(data, "salary", EmptyDict)
    IN IF \E i \in 1..Len(experiences) : Get(experiences[i], "company", "") = NullStr
       THEN EvaluationRaised
       ELSE IF /\ salary # EmptyDict /\ Get(salary, "currency", "USD") = "USD"
               /\ \/ Get(salary, "preferred_rate", 0) = NullNum
                  \/ Get(salary, "availability", 0) = NullNum
       THEN EvaluationRaised
       ELSE Evaluation(evaluate_experience_criteria(data),
                       evaluate_compensation_criteria(data),
                       evaluate_location_criteria(data))

\* evaluate_for_shortlist: detailed_reason
detailed_reason(ev) ==
    <<<<IF ev.qualifies THEN "SHORTLISTED" ELSE "NOT SHORTLISTED">>,
      <<"Experience:">> \o ev.experience.reason,
      <<"Compensation:">> \o ev.compensation.reason,
      <<"Location:">> \o ev.location.reason>>

\* ---- scripts/shortlist.py, scripts/config.py -----------------------------
TIER_1_COMPANIES_scripts ==
    {"Google", "Meta", "Facebook", "OpenAI", "Microsoft", "Amazon", "Apple", "Netflix",
     "Tesla", "SpaceX", "Anthropic", "DeepMind", "Stripe", "Airbnb", "Uber", "LinkedIn",
     "Twitter", "X", "Salesforce", "Oracle", "IBM", "Intel", "NVIDIA", "Adobe", "Snap",
     "Pinterest", "Reddit", "Dropbox", "Atlassian", "Palantir", "Databricks", "Snowflake"}

valid_locations == {"US", "USA", "United States", "Canada", "UK", "United Kingdom",
                    "Germany", "India"}

\* config.normalize_company_name
normalize_company_name(company) ==
    LET normalized == str_title(str_strip(company))
    IN IF ~TruthyStr(company) THEN ""
       ELSE IF normalized = "Facebook" THEN "Meta"
       ELSE IF normalized = "Twitter" THEN "X"
       ELSE normalized

\* config.normalize_location
normalize_location(location) ==
    LET normalized == str_title(str_strip(location))
    IN IF ~TruthyStr(location) THEN ""
       ELSE CASE normalized = "Usa" -> "US"
              [] normalized = "U.S." -> "US"
              [] normalized = "U.S.A." -> "US"
              [] normalized = "United States Of America" -> "United States"
              [] normalized = "Uk" -> "UK"
              [] normalized = "U.K." -> "UK"
              [] normalized = "Great Britain" -> "United Kingdom"
              [] normalized = "Deutschland" -> "Germany"
              [] OTHER -> normalized

\* x.get(lower) or x.get(Capitalised)
GetOrStr(d, k1, k2, dflt) ==
    IF TruthyStr(Get(d, k1, NullStr)) THEN d[k1] ELSE Get(d, k2, dflt)
GetOrNum(d, k1, k2) ==
    IF TruthyNum(Get(d, k1, NullNum)) THEN d[k1] ELSE Get(d, k2, NullNum)

\* ShortlistEvaluator.calculate_years_of_experience, one entry: whole months
exp_months_scripts(exp) ==
    LET start_date == GetOrStr(exp, "start", "Start", NullStr)
        end == GetOrStr(exp, "end", "End", NullStr)
        end_date == IF TruthyStr(end) THEN end ELSE Today
    IN IF ~TruthyStr(start_date) THEN 0
       ELSE IF ~IsIsoDate(start_date) \/ ~IsIsoDate(end_date) THEN 0   \* parse raises: caught
       ELSE MonthsBetween(start_date, end_date)

\* ShortlistEvaluator.calculate_years_of_experience: round(months / 12, 1), in tenths
ShortlistEvaluator_calculate_years_of_experience(experience_list) ==
    RoundHalfEven(SumOver(experience_list, exp_months_scripts) * 10, 12)

\* ShortlistEvaluator.has_tier1_experience
has_tier1_experience(experience_list) ==
    LET name(exp) == normalize_company_name(GetOrStr(exp, "company", "Company", NullStr))
        hits == {i \in 1..Len(experience_list) :
                    /\ TruthyStr(GetOrStr(experience_list[i], "company", "Company", NullStr))
                    /\ name(experience_list[i]) \in TIER_1_COMPANIES_scripts}
        first == CHOOSE i \in hits : \A j \in hits : i <= j
    IN IF hits = {} THEN [has_tier1 |-> FALSE, company |-> NullStr]
       ELSE [has_tier1 |-> TRUE, company |-> name(experience_list[first])]

\* ShortlistEvaluator.evaluate_experience
evaluate_experience(json_data) ==
    LET experience_list == Get(json_data, "experience", <<>>)
        years_exp == ShortlistEvaluator_calculate_years_of_experience(experience_list)
        tier1 == has_tier1_experience(experience_list)
    IN IF years_exp >= 40
       THEN Verdict(TRUE, <<Tenths(years_exp), "years of experience">>)
       ELSE IF tier1.has_tier1
       THEN Verdict(TRUE, <<"Worked at tier-1 company:", tier1.company>>)
       ELSE Verdict(FALSE, <<"Only", Tenths(years_exp),
                             "years of experience and no tier-1 company background">>)

\* ShortlistEvaluator.evaluate_compensation
evaluate_compensation(json_data) ==
    LET salary == Get(json_data, "salary", EmptyDict)
        preferred_rate == GetOrNum(salary, "rate", "Preferred Rate")
        availability == GetOrNum(salary, "availability", "Availability (hrs/wk)")
        currency == GetOrStr(salary, "currency", "Currency", "USD")
        usd == str_upper(currency) = "USD"
        rate_check == IF usd THEN <<NumText(preferred_rate), "/hour">>
                      ELSE <<NumText(preferred_rate), currency, "/hour">>
        rate_ok == IF usd THEN preferred_rate <= 100 ELSE TRUE
        hours_ok == availability >= 20
    IN IF preferred_rate = NullNum THEN Verdict(FALSE, <<"Missing preferred rate information">>)
       ELSE IF availability = NullNum
       THEN Verdict(FALSE, <<"Missing availability information">>)
       ELSE IF rate_ok /\ hours_ok
       THEN Verdict(TRUE, rate_check \o <<"with", NumText(availability), "hrs/week availability">>)
       ELSE IF ~rate_ok
       THEN Verdict(FALSE, <<"Rate">> \o rate_check \o <<"exceeds $100/hour limit">>)
       ELSE Verdict(FALSE, <<"Availability", NumText(availability), "below 20 hrs minimum">>)

\* ShortlistEvaluator.evaluate_location
evaluate_location(json_data) ==
    LET personal == Get(json_data, "personal", EmptyDict)
        location == GetOrStr(personal, "location", "Location", NullStr)
        normalized == normalize_location(location)
    IN IF ~TruthyStr(location) THEN Verdict(FALSE, <<"Missing location information">>)
       ELSE IF \E valid_loc \in valid_locations :
                   Contains(str_lower(normalized), str_lower(valid_loc))
       THEN Verdict(TRUE, <<"Located in", normalized>>)
       ELSE Verdict(FALSE, <<"Location", normalized, "not in approved regions">>)

\* ShortlistEvaluator.evaluate_applicant
ShortlistEvaluator_evaluate_applicant(json_data) ==
    Evaluation(evaluate_experience(json_data), evaluate_compensation(json_data),
               evaluate_location(json_data))

\* ShortlistEvaluator.create_shortlist_record: score_reason
score_reason_scripts(ev) ==
    <<<<"Candidate meets all shortlisting criteria:">>,
      <<"- Experience:">> \o ev.experience.reason,
      <<"- Compensation:">> \o ev.compensation.reason,
      <<"- Location:">> \o ev.location.reason>>

\* ---- the three evaluators against the store -------------------------------
NotEvaluated ==
    [raised |-> FALSE, qualifies |-> FALSE, experience |-> Verdict(FALSE, <<>>),
     compensation |-> Verdict(FALSE, <<>>), location |-> Verdict(FALSE, <<>>)]

\* what an evaluator run leaves: the store, its report, the evaluation
Evaluated(c, status, ev) == [c |-> c, status |-> status, ev |-> ev]

shortlist_status(status) == [x \in {"Shortlist Status"} |-> status]

lead_fields(compressed_json, score_reason) ==
    [x \in {"Compressed JSON", "Score Reason"} |->
       IF x = "Compressed JSON" THEN compressed_json ELSE score_reason]

\* 04_shortlist_evaluator.py main --id a
\* the writes of one evaluation ev: the status and, when it qualifies, the lead
record_evaluation_04(c1, a, compressed_json_str, ev) ==
    LET upd == applicants_update(c1, a, shortlist_status(checkbox(ev.qualifies)))
        crt == table_create(upd, "sl", a,
                            lead_fields(compressed_json_str, generate_score_reason(ev)))
    IN IF ev.raised THEN Evaluated(c1, "error", ev)
       ELSE IF ev.qualifies
       THEN Evaluated(Caught(crt), IF crt.exc THEN "error" ELSE "success", ev)
       ELSE Evaluated(Caught(upd), IF upd.exc THEN "error" ELSE "success", ev)

shortlist_evaluator_04_main(c0, a) ==
    LET c1 == table_get(c0)
        compressed_json_str == Get(c1.s.app[a], "Compressed JSON", EmptyText)
    IN IF c1.exc THEN Evaluated(c1, "crash", NotEvaluated)
       ELSE IF compressed_json_str = EmptyText THEN Evaluated(c1, "skipped_no_json", NotEvaluated)
       ELSE IF ~IsJson(compressed_json_str) THEN Evaluated(c1, "error", NotEvaluated)
       ELSE record_evaluation_04(c1, a, compressed_json_str,
                                 evaluate_applicant_04(json_loads(compressed_json_str)))

\* the writes of one evaluation ev: the status, then the lead when it qualifies
record_evaluation_src(c1, a, compressed_json, ev) ==
    LET upd == applicants_update(c1, a, shortlist_status(checkbox(ev.qualifies)))
        crt == IF ev.qualifies
               THEN table_create(upd, "sl", a, lead_fields(compressed_json, detailed_reason(ev)))
               ELSE upd
    IN IF ev.raised THEN Evaluated(c1, "error", ev)
       ELSE Evaluated(crt, IF crt.exc THEN "error" ELSE "success", ev)

\* Faulty variant of process_shortlist: an applicant that already has a lead
\* gets no second one.
process_shortlist_deduplicated(c0, a) ==
    LET c1 == table_all(c0)
        compressed_json == Get(c1.s.app[a], "Compressed JSON", EmptyText)
        ev == evaluate_for_shortlist(json_loads(compressed_json))
        upd == applicants_update(c1, a, shortlist_status(checkbox(ev.qualifies)))
        crt == IF ev.qualifies /\ Linked(c1.s.sl, a) = <<>>
               THEN table_create(upd, "sl", a, lead_fields(compressed_json, detailed_reason(ev)))
               ELSE upd
    IN IF c1.exc THEN Evaluated(c1, "error", NotEvaluated)
       ELSE IF compressed_json = EmptyText THEN Evaluated(c1, "error", NotEvaluated)
       ELSE IF ~IsJson(compressed_json) THEN Evaluated(c1, "error", NotEvaluated)
       ELSE IF ev.raised THEN Evaluated(c1, "error", ev)
       ELSE Evaluated(crt, IF crt.exc THEN "error" ELSE "success", ev)

\* src/shortlist_evaluator.py process_shortlist; every exception is raised again
process_shortlist(c0, a) ==
    LET c1 == table_all(c0)                      \* get_applicant
        compressed_json == Get(c1.s.app[a], "Compressed JSON", EmptyText)
    IN IF c1.exc THEN Evaluated(c1, "error", NotEvaluated)
       ELSE IF compressed_json = EmptyText THEN Evaluated(c1, "error", NotEvaluated)
       ELSE IF ~IsJson(compressed_json) THEN Evaluated(c1, "error", NotEvaluated)
       ELSE record_evaluation_src(c1, a, compressed_json,
                                  evaluate_for_shortlist(json_loads(compressed_json)))

\* scripts/shortlist.py ShortlistEvaluator.process_applicant: the lead first,
\* then the status, written as a text
record_evaluation_scripts(c0, a, json_data, ev) ==
    LET crt == table_create(c0, "sl", a,
                   [x \in {"Compressed JSON", "Score Reason", "Created At"} |->
                      CASE x = "Compressed JSON" -> json_dumps(json_data)
                        [] x = "Score Reason" -> score_reason_scripts(ev)
                        [] OTHER -> Today])
        upd == IF ev.qualifies
               THEN applicants_update(crt, a, shortlist_status("Shortlisted"))
               ELSE applicants_update(c0, a, shortlist_status("Not Shortlisted"))
    IN Evaluated(upd, IF upd.exc THEN "crash" ELSE "success", ev)

ShortlistEvaluator_process_applicant(c0, a, json_data) ==
    record_evaluation_scripts(c0, a, json_data, ShortlistEvaluator_evaluate_applicant(json_data))

\* scripts/shortlist.py __main__: one applicant id from the command line
ShortlistEvaluator_main(c0, a) ==
    LET c1 == table_get(c0)
        compressed_json == Get(c1.s.app[a], "Compressed JSON", EmptyText)
    IN IF c1.exc THEN Evaluated(c1, "crash", NotEvaluated)
       ELSE IF compressed_json = EmptyText THEN Evaluated(c1, "error", NotEvaluated)
       ELSE IF ~IsJson(compressed_json) THEN Evaluated(c1, "crash", NotEvaluated)
       ELSE ShortlistEvaluator_process_applicant(c1, a, json_loads(compressed_json))

(***************************************************************************)
(* The record of the operation in progress or last finished.               *)
(***************************************************************************)
\*   op, impl, a      which operation, which program, which applicant
\*   force, dry_run   the flags it was given
\*   input            the JSON text the caller supplied, EmptyText for the stored one
\*   status           what it reported; "calling" while the retry loop runs
\*   pending          the pipeline stage that is still to run after it
\*   attempt, delays, kinds   the retry loop: index of the next attempt, delays
\*                    slept, what each provider call did
\*   k, storeExc      requests left before the store raises; whether it raised
\*   personal, work, salary   the per-section report of a materialization
\*   ev               what the shortlist evaluator returned
\*   log              the operations a materialization printed
\*   queue            the applicants a process-all run has still to evaluate
\*   done, failed     the <<applicant, stage>> pairs a process-all run has
\*                    attempted, and those of them that failed
\*   counts, printed  the tallies of a run over all applicants and, for each
\*                    applicant in turn, the tally its result line belongs to
Counts(success_count, skip_count, error_count) ==
    [success_count |-> success_count, skip_count |-> skip_count,
     error_count |-> error_count]
NoCounts == Counts(0, 0, 0)

Idle == [op |-> "none", impl |-> "none", a |-> "none", force |-> FALSE,
         dry_run |-> FALSE, input |-> EmptyText, status |-> "none", pending |-> "none",
         attempt |-> 0, delays |-> <<>>, kinds |-> <<>>, k |-> 0, storeExc |-> FALSE,
         personal |-> "none", work |-> "none", salary |-> "none", ev |-> NotEvaluated,
         log |-> NoLog, queue |-> <<>>, done |-> {}, failed |-> {},
         counts |-> NoCounts, printed |-> <<>>]

\* an enrichment is between two provider calls, or a pipeline between two stages
Busy == last.status = "calling" \/ last.pending # "none"

Commit(s) ==
    /\ Applicants' = s.app
    /\ PersonalDetails' = s.pd
    /\ WorkExperience' = s.we
    /\ SalaryPreferences' = s.sp
    /\ ShortlistedLeads' = s.sl
    /\ nextRecordId' = s.next

Raised(fp, c) == fp > 0 /\ c.k = 0

\* a program is started: nothing else is running
Start == ~Busy /\ runsLeft > 0 /\ runsLeft' = runsLeft - 1

(***************************************************************************)
(* Initial stores: the base as the intake forms leave it.  No applicant    *)
(* has more than one Personal Details or Salary Preferences record.        *)
(***************************************************************************)
Rec(id, a, fields) == [id |-> id, link |-> {a}, fields |-> fields]

PD_full == [x \in {"Full Name", "Email", "Location", "LinkedIn"} |->
              CASE x = "Full Name" -> "Ann" [] x = "Email" -> "ann@x.io"
                [] x = "Location" -> "USA" [] OTHER -> "in/ann"]
PD_sparse == [x \in {"Full Name", "Location"} |->
              CASE x = "Full Name" -> "Bob" [] OTHER -> "Canada"]
SP_full == [x \in {"Preferred Rate", "Minimum Rate", "Currency", "Availability (hrs/wk)"} |->
              CASE x = "Preferred Rate" -> 90 [] x = "Minimum Rate" -> 70
                [] x = "Currency" -> "USD" [] OTHER -> 25]
SP_sparse == [x \in {"Preferred Rate", "Availability (hrs/wk)"} |->
              CASE x = "Preferred Rate" -> 150 [] OTHER -> 30]
WE_google == [x \in {"Company", "Title", "Start", "End", "Technologies"} |->
              CASE x = "Company" -> "Google" [] x = "Title" -> "SWE"
                [] x = "Start" -> "2020-01-01" [] x = "End" -> "2021-01-01"
                [] OTHER -> "Go"]
WE_open == [x \in {"Company", "Title", "Start"} |->
              CASE x = "Company" -> "Acme" [] x = "Title" -> "Dev"
                [] OTHER -> "2015-06-01"]

\* a profile: the child records one applicant starts with
Profile(pd, we, sp) == [pd |-> pd, we |-> we, sp |-> sp]
Profiles == {Profile(<<PD_full>>, <<WE_google, WE_open>>, <<SP_full>>),
             Profile(<<PD_sparse>>, <<WE_open>>, <<SP_sparse>>),
             Profile(<<PD_full>>, <<>>, <<SP_full>>),
             Profile(<<>>, <<WE_google>>, <<SP_full>>),
             Profile(<<PD_sparse>>, <<WE_google>>, <<>>)}

Numbered(a, fieldsList, first) ==
    [i \in 1..Len(fieldsList) |-> Rec(first + i - 1, a, fieldsList[i])]

InitStoreWith(applicants, pa, pb, runs) ==
    /\ Applicants = applicants
    /\ PersonalDetails = Numbered("recA", pa.pd, 1) \o Numbered("recB", pb.pd, 2)
    /\ SalaryPreferences = Numbered("recA", pa.sp, 3) \o Numbered("recB", pb.sp, 4)
    /\ WorkExperience = Numbered("recA", pa.we, 5) \o Numbered("recB", pb.we, 5 + Len(pa.we))
    /\ ShortlistedLeads = <<>>
    /\ nextRecordId = 5 + Len(pa.we) + Len(pb.we)
    /\ last = Idle
    /\ runsLeft = runs

InitStore(pa, pb, runs) ==
    InitStoreWith([a \in ApplicantIds |-> EmptyDict], pa, pb, runs)

Init == \E pa \in Profiles, pb \in Profiles : InitStore(pa, pb, MaxOps)

(***************************************************************************)
(* Operations.  Each runs for one applicant with one store request (fp) at *)
(* which the store raises, 0 for none.                                     *)
(***************************************************************************)
FailPoints(requests) == 0..(IF requests < MaxFailPoint THEN requests ELSE MaxFailPoint)

Finished(op, impl, a, r, fp) ==
    [Idle EXCEPT !.op = op, !.impl = impl, !.a = a, !.status = r.status,
                 !.k = IF r.status = "calling" THEN r.c.k ELSE 0,
                 !.storeExc = Raised(fp, r.c)]

\* 03_compress_data.py main --id a
\* one pass of the loop over the applicants
compress_data_applicant(c1, a) ==
    LET r == compress_applicant_data_03(c1, a)
        upd == applicants_update(r.c, a, [x \in {"Compressed JSON"} |-> json_dumps(r.data)])
    IN IF ~r.ok THEN Report(r.c, "skipped")
       ELSE IF upd.exc THEN Report(Caught(upd), "error")
       ELSE Report(upd, "success")

compress_data_main(c0, a) ==
    LET c1 == table_get(c0)
    IN IF c1.exc THEN Report(c1, "crash") ELSE compress_data_applicant(c1, a)

Run_03_compress_data(a, fp) ==
    /\ Start
    /\ \E r \in {compress_data_main(Ctx(TheStore, fp), a)} :
          /\ Commit(r.c.s)
          /\ last' = Finished("aggregate", "03_compress_data.py", a, r, fp)

\* src/json_compressor.py compress_and_save, as cli.py cmd_compress calls it
compress_and_save(c0, a) ==
    LET r == compress_applicant_data_src(c0, a)
        c1 == table_all(r.c)                   \* save_compressed_json: get_applicant
        upd == applicants_update(c1, a, [x \in {"Compressed JSON"} |-> json_dumps(r.data)])
    IN IF ~r.ok THEN Report(r.c, "error")
       ELSE IF upd.exc THEN Report(upd, "error")
       ELSE Report(upd, "success")

Run_cmd_compress(a, fp) ==
    /\ Start
    /\ \E r \in {compress_and_save(Ctx(TheStore, fp), a)} :
          /\ Commit(r.c.s)
          /\ last' = Finished("aggregate", "src/json_compressor.py", a, r, fp)

\* scripts/compress.py DataCompressor.process_applicant with --no-shortlist,
\* first stage: compress and write the snapshot
DataCompressor_process_applicant(c0, a) ==
    LET r == DataCompressor_compress_applicant_data(c0, a)
        upd == applicants_update(r.c, a, [x \in {"Compressed JSON"} |-> json_dumps(r.data)])
    IN IF upd.exc THEN Report(Caught(upd), "error")
       ELSE Report(upd, "success")

\* scripts/compress.py [--no-llm]: unless --no-llm the LLM stage is still to run
Run_scripts_compress(a, run_llm, fp) ==
    /\ Start
    /\ \E r \in {DataCompressor_process_applicant(Ctx(TheStore, fp), a)} :
          /\ Commit(r.c.s)
          /\ last' = [Finished("aggregate", "scripts/compress.py", a, r, fp)
                        EXCEPT !.pending = IF run_llm /\ r.status = "success"
                                           THEN "llm" ELSE "none",
                               !.k = IF run_llm /\ r.status = "success"
                                     THEN r.c.k ELSE 0]

\* scripts/compress.py DataCompressor.process_applicant, LLM stage: the
\* evaluator is handed the dict that was just written, without force
Run_pipeline_llm ==
    /\ last.pending = "llm"
    /\ UNCHANGED runsLeft
    /\ LET c == [s |-> TheStore, k |-> last.k, exc |-> FALSE]
           json_data == json_loads(Applicants[last.a]["Compressed JSON"])
           r == LLMEvaluator_process_applicant(c, last.a, json_data, FALSE)
       IN /\ Commit(r.c.s)
          /\ last' = [Idle EXCEPT !.op = "enrich", !.impl = "scripts/llm_evaluator.py",
                                  !.a = last.a, !.status = r.status,
                                  !.k = IF r.status = "calling" THEN r.c.k ELSE 0,
                                  !.storeExc = last.k > 0 /\ r.c.k = 0]

\* decompress_data.py main --id a [--dry-run]
Run_decompress_data(a, dry_run, fp) ==
    /\ Start
    /\ \E r \in {decompress_data_main(Ctx(TheStore, fp), a, dry_run)} :
          /\ Commit(r.c.s)
          /\ last' = [Finished("materialize", "decompress_data.py", a, r, fp)
                        EXCEPT !.dry_run = dry_run, !.personal = r.personal,
                               !.work = r.work, !.salary = r.salary, !.log = r.log]

\* cli.py cmd_decompress --applicant-id a
Run_cmd_decompress(a, fp) ==
    /\ Start
    /\ \E r \in {decompress_applicant_data_src(Ctx(TheStore, fp), a)} :
          /\ Commit(r.c.s)
          /\ last' = [Finished("materialize", "src/json_decompressor.py", a, r, fp)
                        EXCEPT !.personal = r.personal, !.work = r.work,
                               !.salary = r.salary]

\* JSON a caller supplies instead of the stored Compressed JSON
Edited(experience) ==
    [personal |-> [name |-> "Ann", email |-> "ann@x.io", location |-> "Germany",
                   linkedin |-> "in/ann"],
     experience |-> experience,
     salary |-> [preferred_rate |-> 80, minimum_rate |-> 70, currency |-> "USD",
                 availability |-> 25]]
Job == [company |-> "Stripe", title |-> "SRE", start |-> "2019-03-01",
        end |-> "2022-03-01", technologies |-> "Go"]
SuppliedJson == {Edited(<<Job>>), Edited(<<>>)}
SuppliedText(supplied) == {json_dumps(j) : j \in supplied} \cup {Garbage}

\* a JSON object whose experience list holds a string where an entry should be
Malformed == Edited(<<Job, Scalar("see my CV")>>)

\* the same edits in the key convention of scripts/compress.py
EditedScripts(j) ==
    [personal |-> j.personal, experience |-> j.experience,
     salary |-> [minimum_rate |-> j.salary.minimum_rate, currency |-> j.salary.currency,
                 availability |-> j.salary.availability, rate |-> j.salary.preferred_rate]]

\* src/json_decompressor.py decompress_from_json_string(a, json_string)
Run_decompress_from_json_string(a, json_string, fp) ==
    /\ Start
    /\ \E r \in {decompress_from_json_string(Ctx(TheStore, fp), a, json_string)} :
          /\ Commit(r.c.s)
          /\ last' = [Finished("materialize", "src/json_decompressor.py", a, r, fp)
                        EXCEPT !.input = json_string, !.personal = r.personal,
                               !.work = r.work, !.salary = r.salary]

\* scripts/decompress.py --applicant-id a
Run_scripts_decompress(a, fp) ==
    /\ Start
    /\ \E r \in {DataDecompressor_process_applicant(Ctx(TheStore, fp), a)} :
          /\ Commit(r.c.s)
          /\ last' = [Finished("materialize", "scripts/decompress.py", a, r, fp)
                        EXCEPT !.personal = r.personal, !.work = r.work,
                               !.salary = r.salary]

\* scripts/decompress.py --applicant-id a --json-file f
Run_scripts_decompress_json_file(a, json_data, fp) ==
    /\ Start
    /\ \E r \in {DataDecompressor_decompress_applicant_data(Ctx(TheStore, fp), a, json_data)} :
          /\ Commit(r.c.s)
          /\ last' = [Finished("materialize", "scripts/decompress.py", a, r, fp)
                        EXCEPT !.input = json_dumps(json_data), !.personal = r.personal,
                               !.work = r.work, !.salary = r.salary]

\* scripts/llm_evaluator.py <a> [--force]
Run_scripts_llm_evaluator(a, force, fp) ==
    /\ Start
    /\ \E r \in {LLMEvaluator_main(Ctx(TheStore, fp), a, force)} :
          /\ Commit(r.c.s)
          /\ last' = [Finished("enrich", "scripts/llm_evaluator.py", a, r, fp)
                        EXCEPT !.force = force]

\* 05_llm_evaluator.py --id a [--force]
Run_05_llm_evaluator(a, force, fp) ==
    /\ Start
    /\ \E r \in {llm_evaluator_05_main(Ctx(TheStore, fp), a, force)} :
          /\ Commit(r.c.s)
          /\ last' = [Finished("enrich", "05_llm_evaluator.py", a, r, fp)
                        EXCEPT !.force = force]

\* scripts/evaluate_candidates.py --applicant-id a --llm-only
Run_evaluate_candidates_llm_only(a, fp) ==
    /\ Start
    /\ \E r \in {process_llm_evaluation(Ctx(TheStore, fp), a)} :
          /\ Commit(r.c.s)
          /\ last' = Finished("enrich", "src/llm_evaluator.py", a, r, fp)

\* 04_shortlist_evaluator.py --id a
Run_04_shortlist_evaluator(a, fp) ==
    /\ Start
    /\ \E r \in {shortlist_evaluator_04_main(Ctx(TheStore, fp), a)} :
          /\ Commit(r.c.s)
          /\ last' = [Finished("evaluate", "04_shortlist_evaluator.py", a, r, fp)
                        EXCEPT !.ev = r.ev]

\* cli.py evaluate --applicant-id a --skip-llm
Run_cmd_evaluate_skip_llm(a, fp) ==
    /\ Start
    /\ \E r \in {process_shortlist(Ctx(TheStore, fp), a)} :
          /\ Commit(r.c.s)
          /\ last' = [Finished("evaluate", "src/shortlist_evaluator.py", a, r, fp)
                        EXCEPT !.ev = r.ev]

\* scripts/shortlist.py <a>
Run_scripts_shortlist(a, fp) ==
    /\ Start
    /\ \E r \in {ShortlistEvaluator_main(Ctx(TheStore, fp), a)} :
          /\ Commit(r.c.s)
          /\ last' = [Finished("evaluate", "scripts/shortlist.py", a, r, fp)
                        EXCEPT !.ev = r.ev]

\* cli.py cmd_compress without --applicant-id: the loop over the applicants
RECURSIVE compress_each(_, _, _)
compress_each(c, ids, failed) ==
    IF ids = <<>> THEN [c |-> c, failed |-> failed]
    ELSE LET r == compress_and_save(c, Head(ids))
         IN compress_each(Caught(r.c), Tail(ids),
                          IF r.status = "success" THEN failed
                          ELSE failed \cup {<<Head(ids), "aggregate">>})

\* the order in which a listing of the Applicants table gives the applicants
BatchOrder == <<"recA", "recB">>

\* cli.py process-all, step 1 and the listing of step 2: every applicant is
\* compressed; when one of them failed the pipeline stops
Run_cmd_process_all(fp) ==
    /\ Start
    /\ \E l \in {table_all(Ctx(TheStore, fp))} :       \* cmd_compress: get_all_records
       \E r \in {compress_each(l, BatchOrder, {})} :
       \E l2 \in {table_all(r.c)} :                   \* cmd_evaluate: get_all_records
       LET ids == SelectSeq(BatchOrder,
                            LAMBDA a : Get(l2.s.app[a], "Compressed JSON", EmptyText) # EmptyText)
           batch == [Idle EXCEPT !.op = "process-all", !.impl = "cli.py"]
           aggregated == {<<BatchOrder[i], "aggregate">> : i \in 1..Len(BatchOrder)}
       IN IF l.exc
          THEN /\ Commit(l.s)
               /\ last' = [batch EXCEPT !.status = "crash", !.storeExc = TRUE]
          ELSE IF r.failed # {}                        \* "Compression failed, stopping pipeline"
          THEN /\ Commit(r.c.s)
               /\ last' = [batch EXCEPT !.status = "error", !.done = aggregated,
                                        !.failed = r.failed, !.storeExc = Raised(fp, r.c)]
          ELSE IF l2.exc
          THEN /\ Commit(l2.s)
               /\ last' = [batch EXCEPT !.status = "crash", !.done = aggregated,
                                        !.storeExc = TRUE]
          ELSE /\ Commit(l2.s)
               /\ last' = [batch EXCEPT !.status = IF ids = <<>> THEN "success" ELSE "evaluating",
                                        !.pending = IF ids = <<>> THEN "none" ELSE "evaluate",
                                        !.queue = ids, !.done = aggregated]

\* cli.py process-all, step 2, one pass of the loop of cmd_evaluate: the
\* shortlist evaluation of the next applicant and, unless it raised, the start
\* of the LLM evaluation
Run_cmd_process_all_evaluate(fp) ==
    /\ last.op = "process-all" /\ last.pending = "evaluate" /\ last.status # "calling"
    /\ UNCHANGED runsLeft
    /\ \E sh \in {process_shortlist(Ctx(TheStore, fp), Head(last.queue))} :
       \E llm \in {process_llm_evaluation(sh.c, Head(last.queue))} :
       LET a == Head(last.queue)
           rest == Tail(last.queue)
           next == [last EXCEPT !.a = a, !.ev = sh.ev, !.queue = rest,
                                !.pending = IF rest = <<>> THEN "none" ELSE "evaluate",
                                !.attempt = 0, !.delays = <<>>, !.kinds = <<>>]
       IN IF sh.status # "success"
          THEN /\ Commit(sh.c.s)
               /\ last' = [next EXCEPT !.status = "error", !.k = 0,
                                       !.done = @ \cup {<<a, "evaluate">>},
                                       !.failed = @ \cup {<<a, "evaluate">>},
                                       !.storeExc = Raised(fp, sh.c)]
          ELSE /\ Commit(llm.c.s)
               /\ last' = [next EXCEPT !.status = llm.status,
                                       !.k = IF llm.status = "calling" THEN llm.c.k ELSE 0,
                                       !.done = @ \cup {<<a, "evaluate">>, <<a, "enrich">>},
                                       !.storeExc = Raised(fp, llm.c)]

(***************************************************************************)
(* The root programs without --id: one run over the listing of the         *)
(* Applicants table, with the three counters of the summary.               *)
(***************************************************************************)
\* a run so far: the store, the counters, the result line of each applicant
Tally(c, counts, printed) == [c |-> c, counts |-> counts, printed |-> printed]

success(t, c, a) ==
    Tally(c, [t.counts EXCEPT !.success_count = @ + 1], Append(t.printed, <<a, "success">>))
skip(t, c, a) ==
    Tally(c, [t.counts EXCEPT !.skip_count = @ + 1], Append(t.printed, <<a, "skip">>))
error(t, c, a) ==
    Tally(c, [t.counts EXCEPT !.error_count = @ + 1], Append(t.printed, <<a, "error">>))

\* 03_compress_data.py main, the loop: None from compress_applicant_data
\* (a section without records, or an exception it caught) is a skip
RECURSIVE compress_data_loop(_, _)
compress_data_loop(t, applicants_to_process) ==
    IF applicants_to_process = <<>> THEN t
    ELSE LET applicant_id == Head(applicants_to_process)
             r == compress_data_applicant(t.c, applicant_id)
         IN compress_data_loop(
                CASE r.status = "skipped" -> skip(t, r.c, applicant_id)
                  [] r.status = "success" -> success(t, r.c, applicant_id)
                  [] OTHER -> error(t, r.c, applicant_id),
                Tail(applicants_to_process))

\* decompress_data.py main, the loop; the fields are those of the listing
RECURSIVE decompress_data_loop(_, _, _, _)
decompress_data_loop(t, listing, applicants, dry_run) ==
    IF applicants = <<>> THEN t
    ELSE LET applicant_id == Head(applicants)
             r == decompress_data_applicant(t.c, applicant_id,
                      Get(listing[applicant_id], "Compressed JSON", EmptyText), dry_run)
         IN decompress_data_loop(
                CASE r.status = "skipped" -> skip(t, r.c, applicant_id)
                  [] r.status = "success" -> success(t, r.c, applicant_id)
                  [] OTHER -> error(t, r.c, applicant_id),   \* partial success, invalid JSON
                listing, Tail(applicants), dry_run)

\* what the provider does at each of the calls of one retry loop
ProviderScripts ==
    {[i \in 1..max_retries |-> Answers_(GoodAnswer)],
     [i \in 1..max_retries |-> Answers_(BadScore)],
     [i \in 1..max_retries |-> Raises("rate_limit")],
     [i \in 1..max_retries |-> IF i = 1 THEN Raises("connection") ELSE Answers_(GoodAnswer)]}

\* 05_llm_evaluator.py call_openai_with_retry and the update that follows it,
\* the loop run to its end against a provider that does what script says
RECURSIVE call_openai_with_retry_05_run(_, _, _)
call_openai_with_retry_05_run(loop, a, script) ==
    IF loop.status # "calling" \/ script = <<>> THEN loop
    ELSE call_openai_with_retry_05_run(
             call_openai_with_retry_05(loop.c, a, loop.attempt, loop.delays, loop.kinds,
                                       Head(script)),
             a, Tail(script))

\* 05_llm_evaluator.py main, the loop; the fields are those of the listing
RECURSIVE llm_evaluator_05_loop(_, _, _, _, _)
llm_evaluator_05_loop(t, listing, applicants, force, scripts) ==
    IF applicants = <<>> THEN t
    ELSE LET applicant_id == Head(applicants)
             entry == llm_evaluator_05_applicant(t.c, listing[applicant_id], force)
             r == IF entry.status # "calling" THEN entry
                  ELSE call_openai_with_retry_05_run(
                           Loop(entry.c, "calling", 0, <<>>, <<>>), applicant_id,
                           scripts[applicant_id])
         IN llm_evaluator_05_loop(
                CASE r.status \in {"skipped_no_json", "skipped"} -> skip(t, r.c, applicant_id)
                  [] r.status = "success" -> success(t, r.c, applicant_id)
                  [] OTHER -> error(t, r.c, applicant_id),
                listing, Tail(applicants), force, scripts)

\* a run over all applicants ended: with the summary, or at the listing
Summary(impl, l, t, fp) ==
    IF l.exc
    THEN /\ Commit(l.s)
         /\ last' = [Idle EXCEPT !.op = "all", !.impl = impl, !.status = "crash",
                                 !.storeExc = TRUE]
    ELSE /\ Commit(t.c.s)
         /\ last' = [Idle EXCEPT !.op = "all", !.impl = impl, !.status = "summary",
                                 !.queue = BatchOrder, !.counts = t.counts,
                                 !.printed = t.printed, !.storeExc = Raised(fp, t.c)]

\* 03_compress_data.py (all applicants)
Run_03_compress_data_all(fp) ==
    /\ Start
    /\ \E l \in {table_all(Ctx(TheStore, fp))} :
       \E t \in {compress_data_loop(Tally(l, NoCounts, <<>>), BatchOrder)} :
          Summary("03_compress_data.py", l, t, fp)

\* decompress_data.py [--dry-run] (all applicants)
Run_decompress_data_all(dry_run, fp) ==
    /\ Start
    /\ \E l \in {table_all(Ctx(TheStore, fp))} :
       \E t \in {decompress_data_loop(Tally(l, NoCounts, <<>>), l.s.app, BatchOrder, dry_run)} :
          Summary("decompress_data.py", l, t, fp)

\* 05_llm_evaluator.py [--force] (all applicants)
Run_05_llm_evaluator_all(force, scripts, fp) ==
    /\ Start
    /\ \E l \in {table_all(Ctx(TheStore, fp))} :
       \E t \in {llm_evaluator_05_loop(Tally(l, NoCounts, <<>>), l.s.app, BatchOrder,
                                       force, scripts)} :
          Summary("05_llm_evaluator.py", l, t, fp)

\* the root programs run over all applicants
RunAll ==
    \/ \E fp \in FailPoints(MaxFailPoint) : Run_03_compress_data_all(fp)
    \/ \E fp \in FailPoints(MaxFailPoint), dry_run \in BOOLEAN : Run_decompress_data_all(dry_run, fp)
    \/ \E fp \in FailPoints(3), force \in BOOLEAN, scripts \in [ApplicantIds -> ProviderScripts] :
          Run_05_llm_evaluator_all(force, scripts, fp)

\* the provider call of the running retry loop returns or raises
ProviderResponds(o) ==
    /\ last.status = "calling"
    /\ UNCHANGED runsLeft
    /\ LET c == [s |-> TheStore, k |-> last.k, exc |-> FALSE]
           r == CASE last.impl = "scripts/llm_evaluator.py" ->
                       LLMEvaluator_evaluate_with_llm(c, last.a, last.attempt,
                                                      last.delays, last.kinds, o)
                  [] last.impl = "05_llm_evaluator.py" ->
                       call_openai_with_retry_05(c, last.a, last.attempt,
                                                 last.delays, last.kinds, o)
                  [] OTHER ->
                       call_openai_with_retry_src(c, last.a, last.attempt,
                                                  last.delays, last.kinds, o)
       IN /\ Commit(r.c.s)
          /\ last' = [last EXCEPT !.status = r.status, !.attempt = r.attempt,
                                  !.delays = r.delays, !.kinds = r.kinds,
                                  !.k = IF r.status = "calling" THEN r.c.k ELSE 0,
                                  !.storeExc = last.storeExc \/ (last.k > 0 /\ r.c.k = 0)]

\* the compress programs, for the applicants ids
Aggregate(ids, llm) ==
    \E a \in ids :
        \/ \E fp \in FailPoints(5) : Run_03_compress_data(a, fp)
        \/ \E fp \in FailPoints(6) : Run_cmd_compress(a, fp)
        \/ \E fp \in FailPoints(6), run_llm \in llm : Run_scripts_compress(a, run_llm, fp)

\* the decompress programs, for the applicants ids
Materialize(ids, supplied) ==
    \E a \in ids, fp \in FailPoints(MaxFailPoint) :
        \/ \E dry_run \in BOOLEAN : Run_decompress_data(a, dry_run, fp)
        \/ Run_cmd_decompress(a, fp)
        \/ \E t \in SuppliedText(supplied) : Run_decompress_from_json_string(a, t, fp)
        \/ Run_scripts_decompress(a, fp)
        \/ \E j \in supplied : Run_scripts_decompress_json_file(a, EditedScripts(j), fp)

\* the evaluators, for the applicants ids and a provider that gives outcomes
Enrich(ids, outcomes) ==
    \/ \E a \in ids :
        \/ \E fp \in FailPoints(3), force \in BOOLEAN : Run_scripts_llm_evaluator(a, force, fp)
        \/ \E fp \in FailPoints(2), force \in BOOLEAN : Run_05_llm_evaluator(a, force, fp)
        \/ \E fp \in FailPoints(2) : Run_evaluate_candidates_llm_only(a, fp)
    \/ Run_pipeline_llm
    \/ \E o \in outcomes : ProviderResponds(o)

\* the full pipeline over all applicants
Batch ==
    \E fp \in FailPoints(MaxFailPoint) :
        \/ Run_cmd_process_all(fp)
        \/ Run_cmd_process_all_evaluate(fp)

\* the shortlist evaluators, for the applicants ids
Evaluate(ids) ==
    \E a \in ids, fp \in FailPoints(3) :
        \/ Run_04_shortlist_evaluator(a, fp)
        \/ Run_cmd_evaluate_skip_llm(a, fp)
        \/ Run_scripts_shortlist(a, fp)

Next == \/ Aggregate(ApplicantIds, BOOLEAN)
        \/ Materialize(ApplicantIds, SuppliedJson)
        \/ Evaluate(ApplicantIds)
        \/ Enrich(ApplicantIds, Outcomes(Answers))
        \/ Batch

Spec == Init /\ [][Next]_vars

(***************************************************************************)
(* Enrichment of one applicant on a base whose child tables stay as they   *)
(* are: the snapshot is written by the three compress programs, the LLM    *)
(* fields by the three evaluators.                                         *)
(***************************************************************************)
InitEnrich ==
    InitStore(Profile(<<PD_full>>, <<WE_google, WE_open>>, <<SP_full>>),
              Profile(<<PD_sparse>>, <<WE_open>>, <<SP_sparse>>), MaxOps)

NextEnrich == \/ Aggregate({"recA"}, BOOLEAN)
              \/ Enrich({"recA"}, Outcomes({GoodAnswer, NoFollowUps, BadScore}))

SpecEnrich == InitEnrich /\ [][NextEnrich]_vars

(***************************************************************************)
(* Enrichment with a provider whose answers include a score out of range,  *)
(* a score that is not a number and an answer without any label.           *)
(***************************************************************************)
ScoreOutcomes == {Raises("rate_limit")} \cup {Answers_(r) : r \in Answers}

NextScores == \/ Aggregate({"recA"}, BOOLEAN)
              \/ Enrich({"recA"}, ScoreOutcomes)

SpecScores == InitEnrich /\ [][NextScores]_vars

(***************************************************************************)
(* Aggregation and materialization without the evaluators.                 *)
(***************************************************************************)
InitStoreA ==
    \E pa \in Profiles :
        InitStore(pa, Profile(<<PD_sparse>>, <<WE_open>>, <<SP_sparse>>), MaxStoreOps)

NextStore == Aggregate({"recA"}, {FALSE}) \/ Materialize({"recA"}, SuppliedJson)

SpecStore == InitStoreA /\ [][NextStore]_vars

(***************************************************************************)
(* Materialization of content that is not a snapshot: the Compressed JSON  *)
(* of recA was edited by hand into a text that is no JSON, and the callers *)
(* supply, next to the well-formed edits, a JSON object whose experience   *)
(* list has a string among its entries.                                    *)
(***************************************************************************)
InitInvalid ==
    \E pa \in Profiles, text \in {EmptyText, Garbage} :
        InitStoreWith([a \in ApplicantIds |->
                         IF a = "recA" THEN Stored([x \in {"Compressed JSON"} |-> text])
                         ELSE EmptyDict],
                      pa, Profile(<<PD_sparse>>, <<WE_open>>, <<SP_sparse>>), MaxStoreOps)

NextInvalid == \/ Aggregate({"recA"}, {FALSE})
               \/ Materialize({"recA"}, SuppliedJson \cup {Malformed})

SpecInvalid == InitInvalid /\ [][NextInvalid]_vars

(***************************************************************************)
(* Two applicants with records of their own, and every program run for     *)
(* either of them.                                                         *)
(***************************************************************************)
InitFrame ==
    InitStore(Profile(<<PD_full>>, <<WE_google, WE_open>>, <<SP_full>>),
              Profile(<<PD_sparse>>, <<WE_open>>, <<SP_sparse>>), MaxStoreOps)

NextFrame == \/ Aggregate(ApplicantIds, BOOLEAN)
             \/ Materialize(ApplicantIds, SuppliedJson)
             \/ Evaluate(ApplicantIds)
             \/ Enrich(ApplicantIds, Outcomes({GoodAnswer}))

SpecFrame == InitFrame /\ [][NextFrame]_vars

(***************************************************************************)
(* The full pipeline over two applicants, each with records or with some   *)
(* of them missing.                                                        *)
(***************************************************************************)
InitBatch == \E pa \in Profiles, pb \in Profiles : InitStore(pa, pb, MaxBatchRuns)

NextBatch == \/ Batch
             \/ \E o \in Outcomes({GoodAnswer}) : ProviderResponds(o)

SpecBatch == InitBatch /\ [][NextBatch]_vars

(***************************************************************************)
(* Evaluation of one applicant: the snapshot is written by the three       *)
(* compress programs, the shortlist status and the leads by the three      *)
(* shortlist evaluators.                                                   *)
(***************************************************************************)
PD_melbourne == [x \in {"Full Name", "Email", "Location"} |->
                   CASE x = "Full Name" -> "Cy" [] x = "Email" -> "cy@x.io"
                     [] OTHER -> "Melbourne, Australia"]
WE_google_llc == [x \in {"Company", "Title", "Start", "End"} |->
                    CASE x = "Company" -> "Google LLC" [] x = "Title" -> "SWE"
                      [] x = "Start" -> "2023-01-01" [] OTHER -> "2024-01-01"]
WE_short == [x \in {"Company", "Title", "Start", "End"} |->
               CASE x = "Company" -> "Acme" [] x = "Title" -> "Dev"
                 [] x = "Start" -> "2022-01-01" [] OTHER -> "2023-01-01"]

ShortlistProfiles ==
    {Profile(<<PD_full>>, <<WE_google>>, <<SP_full>>),
     Profile(<<PD_full>>, <<WE_google_llc>>, <<SP_full>>),
     Profile(<<PD_sparse>>, <<WE_open>>, <<SP_sparse>>),
     Profile(<<PD_full>>, <<WE_short, WE_open>>, <<SP_full>>),
     Profile(<<PD_full>>, <<WE_short>>, <<SP_full>>),
     Profile(<<PD_melbourne>>, <<WE_open>>, <<SP_full>>)}

InitShortlist ==
    \E pa \in ShortlistProfiles :
        InitStore(pa, Profile(<<PD_sparse>>, <<WE_open>>, <<SP_sparse>>), MaxOps)

NextShortlist == Aggregate({"recA"}, {FALSE}) \/ Evaluate({"recA"})

SpecShortlist == InitShortlist /\ [][NextShortlist]_vars

(***************************************************************************)
(* Evaluation of one applicant over the cases of each criterion: rates and *)
(* availabilities at the bounds and in another currency, locations that    *)
(* look like an approved region, and experience entries with unusual dates.*)
(***************************************************************************)
Salary(rate, currency, hours) ==
    [x \in {"Preferred Rate", "Minimum Rate", "Currency", "Availability (hrs/wk)"} |->
       CASE x = "Preferred Rate" -> rate [] x = "Minimum Rate" -> 50
         [] x = "Currency" -> currency [] OTHER -> hours]
SP_bound == Salary(100, "USD", 20)
SP_over == Salary(101, "USD", 40)
SP_under == Salary(50, "USD", 19)
SP_eur == Salary(90, "EUR", 25)

Located(location) ==
    [x \in {"Full Name", "Email", "Location"} |->
       CASE x = "Full Name" -> "Dee" [] x = "Email" -> "dee@x.io" [] OTHER -> location]
PD_delhi == Located("New Delhi, India")
PD_indianapolis == Located("Indianapolis, Indiana")

Worked(start, end) ==
    [x \in {"Company", "Title", "Start", "End"} |->
       CASE x = "Company" -> "Acme" [] x = "Title" -> "Dev"
         [] x = "Start" -> start [] OTHER -> end]
WE_reversed == Worked("2021-01-01", "2015-01-01")
WE_future == Worked("2031-01-01", "2040-01-01")
WE_undated == Worked("January 2015", "2022-01-01")
WE_long == Worked("1960-01-01", "2024-01-01")

CriteriaProfiles ==
    {Profile(<<PD_full>>, <<WE_open>>, <<sp>>) : sp \in {SP_bound, SP_over, SP_under, SP_eur}}
    \cup {Profile(<<pd>>, <<WE_open>>, <<SP_full>>) : pd \in {PD_delhi, PD_melbourne, PD_indianapolis}}
    \cup {Profile(<<PD_full>>, we, <<SP_full>>) :
            we \in {<<WE_reversed>>, <<WE_future>>, <<WE_undated>>, <<WE_long>>,
                    <<WE_long, WE_short>>, <<WE_reversed, WE_open>>}}

InitCriteria ==
    \E pa \in CriteriaProfiles :
        InitStore(pa, Profile(<<PD_sparse>>, <<WE_open>>, <<SP_sparse>>), MaxStoreOps)

NextCriteria == Aggregate({"recA"}, {FALSE}) \/ Evaluate({"recA"})

SpecCriteria == InitCriteria /\ [][NextCriteria]_vars

(***************************************************************************)
(* The root programs run over all applicants: two applicants, each with    *)
(* records or with some of them missing; the Compressed JSON of recA is    *)
(* empty or was edited into a text that is no JSON.                        *)
(***************************************************************************)
InitTally ==
    \E pa \in Profiles, pb \in Profiles, text \in {EmptyText, Garbage} :
        InitStoreWith([a \in ApplicantIds |->
                         IF a = "recA" THEN Stored([x \in {"Compressed JSON"} |-> text])
                         ELSE EmptyDict],
                      pa, pb, MaxStoreOps)

NextTally == RunAll

SpecTally == InitTally /\ [][NextTally]_vars

(***************************************************************************)
(* Evaluation of snapshots that are not whole: the Compressed JSON of recA *)
(* is empty, is no JSON, or is a JSON object that lacks one section; the   *)
(* compress programs write snapshots of applicants who lack a record.      *)
(***************************************************************************)
Sections_ == {"personal", "experience", "salary"}
Without(j, section) == [k \in (DOMAIN j) \ {section} |-> j[k]]
PartialSnapshots == {json_dumps(Without(Edited(<<Job>>), section)) : section \in Sections_}

\* a work record whose Company cell was left empty
WE_unnamed == [x \in {"Title", "Start", "End"} |->
                 CASE x = "Title" -> "Contractor" [] x = "Start" -> "2012-01-01"
                   [] OTHER -> "2020-01-01"]
SectionProfiles == Profiles \cup {Profile(<<PD_full>>, <<WE_unnamed>>, <<SP_full>>)}

InitSections ==
    \E pa \in SectionProfiles, text \in {EmptyText, Garbage} \cup PartialSnapshots :
        InitStoreWith([a \in ApplicantIds |->
                         IF a = "recA" THEN Stored([x \in {"Compressed JSON"} |-> text])
                         ELSE EmptyDict],
                      pa, Profile(<<PD_sparse>>, <<WE_open>>, <<SP_sparse>>), MaxStoreOps)

NextSections == Aggregate({"recA"}, {FALSE}) \/ Evaluate({"recA"})

SpecSections == InitSections /\ [][NextSections]_vars

(***************************************************************************)
(* Properties of enrichment (SpecEnrich).                                  *)
(***************************************************************************)
\* the snapshot an Applicant record holds, its content hash, the stored hash
Snapshot(fields) == Get(fields, "Compressed JSON", EmptyText)
HasSnapshot(fields) == IsJson(Snapshot(fields))
HashOfSnapshot(fields) == compute_json_hash(json_loads(Snapshot(fields)))
StoredHash(fields) == Get(fields, "JSON Hash", NoHash)

\* the stored assessment: summary, score, follow-ups and content hash
Assessment(fields) ==
    [k \in {"LLM Summary", "LLM Score", "LLM Follow-Ups", "JSON Hash"} \cap DOMAIN fields |->
       fields[k]]

\* this step is the entry of an evaluator for applicant last'.a: no retry loop
\* was running and the step leaves the record of an enrichment
EnrichStarts == last.status # "calling" /\ last'.op = "enrich"

\* this step is the pass of a retry loop that ends it
EnrichEnds == last.status = "calling" /\ last'.status # "calling"

Transient == {"rate_limit", "connection"}
NonRetryable == {"auth", "bad_request", "unparsable"}

\* C1: an enrich without force of an applicant whose snapshot hashes to the
\* stored hash (and no store request raises) reports skipped, does not reach
\* the provider call and writes nothing to the Applicants table.
C1_Step ==
    (/\ EnrichStarts
     /\ ~last'.force
     /\ ~last'.storeExc
     /\ HasSnapshot(Applicants[last'.a])
     /\ StoredHash(Applicants[last'.a]) = HashOfSnapshot(Applicants[last'.a]))
    => (last'.status = "skipped" /\ Applicants' = Applicants)

C1_SkippedWhenHashEqual == [][C1_Step]_vars

\* C2: an enrich of an applicant that has a snapshot reaches the provider call
\* whenever force is set or the stored hash differs from the snapshot's hash
\* (no stored hash included), no store request raising.
C2_Step ==
    (/\ EnrichStarts
     /\ ~last'.storeExc
     /\ HasSnapshot(Applicants[last'.a])
     /\ \/ last'.force
        \/ StoredHash(Applicants[last'.a]) # HashOfSnapshot(Applicants[last'.a]))
    => last'.status = "calling"

C2_CallsProviderWhenForcedOrChanged == [][C2_Step]_vars

\* C3: when an enrich succeeds the Applicant record holds a summary, a score
\* and the content hash of the snapshot; and the enrich without force that
\* comes next for the same applicant is skipped and writes nothing.
C3_Step ==
    /\ (EnrichEnds /\ last'.status = "success")
       => LET f == Applicants'[last'.a]
          IN /\ {"LLM Summary", "LLM Score"} \subseteq DOMAIN f
             /\ StoredHash(f) = HashOfSnapshot(f)
    /\ (/\ last.op = "enrich" /\ last.status = "success"
        /\ EnrichStarts /\ last'.a = last.a
        /\ ~last'.force /\ ~last'.storeExc)
       => (last'.status = "skipped" /\ Applicants' = Applicants)

C3_SuccessStoresHashThenSkips == [][C3_Step]_vars

\* C4: a retry loop that ends without a successful response reports a failure,
\* and a step that leaves an enrichment failed leaves the applicant's stored
\* summary, score, follow-ups and content hash as they were.
C4_Step ==
    /\ (EnrichEnds /\ last'.kinds[Len(last'.kinds)] # "ok")
       => last'.status = "error"
    /\ (last'.op = "enrich" /\ last'.status \in {"error", "crash"})
       => Assessment(Applicants'[last'.a]) = Assessment(Applicants[last'.a])

C4_FailureLeavesAssessment == [][C4_Step]_vars

\* an enrichment that failed after three provider calls on an applicant that
\* already had an assessment, which is still there
C4_Witness ==
    /\ last.op = "enrich" /\ last.status = "error"
    /\ Len(last.kinds) = max_retries
    /\ "LLM Summary" \in DOMAIN Applicants[last.a]
    /\ "LLM Score" \in DOMAIN Applicants[last.a]

\* C5: one enrich makes at most three provider calls; a transient failure that
\* is followed by another attempt is the k-th call and is followed by a delay
\* of 1 * 2^(k-1); a successful response is the last call of the loop.
C5_RetryBudgetAndBackoff ==
    last.op = "enrich" =>
        /\ Len(last.kinds) <= LLM_RETRY_ATTEMPTS
        /\ last.status = "calling" => Len(last.kinds) < LLM_RETRY_ATTEMPTS
        /\ \A k \in 1..Len(last.kinds) :
              /\ last.kinds[k] = "ok" => (k = Len(last.kinds) /\ last.status # "calling")
              /\ (last.kinds[k] \in Transient /\ (k < Len(last.kinds) \/ last.status = "calling"))
                 => (Len(last.delays) >= k /\ last.delays[k] = LLM_RETRY_DELAY * 2^(k - 1))

\* two transient failures, delays of 1 then 2, success on the third call
C5_Witness ==
    /\ last.op = "enrich" /\ last.status = "success"
    /\ last.kinds = <<"rate_limit", "connection", "ok">>
    /\ last.delays = <<1, 2>>

\* C6: a provider call that fails in a non-retryable way (malformed request,
\* authentication, unparsable response) is the last call of its enrich, and
\* no delay is slept after it.
C6_NonRetryableEndsCall ==
    last.op = "enrich" =>
        \A k \in 1..Len(last.kinds) :
            last.kinds[k] \in NonRetryable
            => (k = Len(last.kinds) /\ last.status # "calling" /\ Len(last.delays) < k)

(***************************************************************************)
(* Properties of aggregation and materialization (SpecStore).              *)
(***************************************************************************)
Content(recs) == [i \in 1..Len(recs) |-> recs[i].fields]
Ids(recs) == {recs[i].id : i \in 1..Len(recs)}
ContentSet(recs) == {recs[i].fields : i \in 1..Len(recs)}

\* this step is a materialization that wrote (no dry run) and reported success
MaterializeSucceeds ==
    /\ runsLeft' # runsLeft
    /\ last'.op = "materialize" /\ last'.status = "success" /\ ~last'.dry_run

\* the snapshot that step materializes: the supplied one, else the stored one
MaterializedSnapshot ==
    json_loads(IF last'.input # EmptyText THEN last'.input
               ELSE Snapshot(Applicants[last'.a]))

\* C7: after a materialize that succeeds, the Work Experience records linked
\* to the applicant are, in order, the entries of the snapshot's experience
\* list, and no record linked before the call is still linked; an empty
\* experience list included.
C7_Step ==
    MaterializeSucceeds =>
        LET experience == Section(MaterializedSnapshot, "experience", <<>>)
            before == Linked(WorkExperience, last'.a)
            after == Linked(WorkExperience', last'.a)
        IN /\ Content(after) = [i \in 1..Len(experience) |-> Stored(exp_fields(experience[i]))]
           /\ Ids(before) \cap Ids(after) = {}

C7_WorkExperienceReplaced == [][C7_Step]_vars

\* C8: no applicant ever has more than one linked Personal Details record or
\* more than one linked Salary Preferences record.
C8_AtMostOnePersonalAndSalary ==
    \A a \in ApplicantIds :
        /\ Len(Linked(PersonalDetails, a)) <= 1
        /\ Len(Linked(SalaryPreferences, a)) <= 1

\* C9: an aggregate for an applicant with no linked Personal Details record or
\* no linked Salary Preferences record does not report success and leaves the
\* Compressed JSON field as it was.
C9_Step ==
    (/\ runsLeft' # runsLeft
     /\ last'.op = "aggregate"
     /\ \/ Linked(PersonalDetails, last'.a) = <<>>
        \/ Linked(SalaryPreferences, last'.a) = <<>>)
    => /\ last'.status # "success"
       /\ Snapshot(Applicants'[last'.a]) = Snapshot(Applicants[last'.a])

C9_MissingRecordFailsAggregate == [][C9_Step]_vars

\* the aggregator and the materializer of one program family
SameFamily(compress, decompress) ==
    <<compress, decompress>> \in {<<"03_compress_data.py", "decompress_data.py">>,
                                  <<"src/json_compressor.py", "src/json_decompressor.py">>,
                                  <<"scripts/compress.py", "scripts/decompress.py">>}

\* this step completes materialize(aggregate(a)): the step before was a
\* successful aggregate of a, this one materializes the stored snapshot
RoundTrip ==
    /\ last.op = "aggregate" /\ last.status = "success"
    /\ MaterializeSucceeds
    /\ last'.a = last.a /\ last'.input = EmptyText
    /\ SameFamily(last.impl, last'.impl)

\* a record keeps every value it had; a field it lacked is still empty or
\* holds the default the snapshot carries for it (0, "USD")
KeptOrDefaulted(before, after) ==
    /\ \A k \in DOMAIN before : k \in DOMAIN after /\ after[k] = before[k]
    /\ \A k \in DOMAIN after \ DOMAIN before : after[k] = salary_fields(EmptyDict)[k]

\* C10, as the spec states it: the round trip leaves every Personal Details
\* and Salary Preferences field value as it was and the Work Experience
\* content equal as a set.
C10_Original_Step ==
    RoundTrip =>
        /\ Content(Linked(PersonalDetails', last.a)) = Content(Linked(PersonalDetails, last.a))
        /\ Content(Linked(SalaryPreferences', last.a)) = Content(Linked(SalaryPreferences, last.a))
        /\ ContentSet(Linked(WorkExperience', last.a)) = ContentSet(Linked(WorkExperience, last.a))

C10_Original == [][C10_Original_Step]_vars

\* C10, amended: the round trip by one program family keeps every Personal
\* Details and Salary Preferences record that was linked to the applicant;
\* the Personal Details fields are as they were; every Salary Preferences
\* field that had a value keeps it, and one that was empty stays empty or
\* receives the snapshot's default; the Work Experience content is equal as
\* a set.
C10_Step ==
    RoundTrip =>
        LET pd == Linked(PersonalDetails, last.a)
            pd2 == Linked(PersonalDetails', last.a)
            sp == Linked(SalaryPreferences, last.a)
            sp2 == Linked(SalaryPreferences', last.a)
        IN /\ Len(pd2) >= Len(pd) /\ Len(sp2) >= Len(sp)
           /\ \A i \in 1..Len(pd) : pd2[i] = pd[i]
           /\ \A i \in 1..Len(sp) : /\ sp2[i].id = sp[i].id
                                      /\ KeptOrDefaulted(sp[i].fields, sp2[i].fields)
           /\ ContentSet(Linked(WorkExperience', last.a)) = ContentSet(Linked(WorkExperience, last.a))

C10_RoundTripKeepsValues == [][C10_Step]_vars

\* after the round trip of an applicant whose Salary Preferences record had
\* no Currency and no Minimum Rate: the rate it had, and the defaults
C10_Witness ==
    /\ last.op = "materialize" /\ last.status = "success"
    /\ last.input = EmptyText /\ ~last.dry_run
    /\ last.impl = "src/json_decompressor.py"
    /\ HasSnapshot(Applicants[last.a])
    /\ LET sp == Linked(SalaryPreferences, last.a)
           s == json_loads(Snapshot(Applicants[last.a]))
       IN /\ Len(sp) = 1
          /\ sp[1].fields = [x \in {"Preferred Rate", "Minimum Rate", "Currency",
                                    "Availability (hrs/wk)"} |->
                               CASE x = "Preferred Rate" -> 150
                                 [] x = "Minimum Rate" -> 0
                                 [] x = "Currency" -> "USD"
                                 [] OTHER -> 30]
          /\ s.salary = [preferred_rate |-> 150, minimum_rate |-> 0, currency |-> "USD",
                         availability |-> 30]

(***************************************************************************)
(* Properties of evaluation (SpecShortlist).                               *)
(***************************************************************************)
\* this step is a run of a shortlist evaluator that finished without an error
EvaluateCompletes ==
    /\ runsLeft' # runsLeft
    /\ last'.op = "evaluate" /\ last'.status = "success"

ShortlistStatus(fields) == Get(fields, "Shortlist Status", Unchecked)

\* the lead's Score Reason has a line for each criterion that ends in its reason
CarriesReasoning(score_reason, ev) ==
    \A reason \in {ev.experience.reason, ev.compensation.reason, ev.location.reason} :
        \E i \in 1..Len(score_reason) : Tail(score_reason[i]) = reason

\* C11: an evaluate that completes for a snapshot that qualifies appends
\* exactly one Shortlisted Leads record; it is linked to the applicant, holds
\* the snapshot that was evaluated and the reason of each criterion; leads
\* that existed stay (no deduplication).
C11_Step ==
    (EvaluateCompletes /\ last'.ev.qualifies) =>
        /\ Len(ShortlistedLeads') = Len(ShortlistedLeads) + 1
        /\ SubSeq(ShortlistedLeads', 1, Len(ShortlistedLeads)) = ShortlistedLeads
        /\ LET lead == ShortlistedLeads'[Len(ShortlistedLeads')]
           IN /\ lead.link = {last'.a}
              /\ \A i \in 1..Len(ShortlistedLeads) : ShortlistedLeads[i].id # lead.id
              /\ Get(lead.fields, "Compressed JSON", EmptyText) = Snapshot(Applicants[last'.a])
              /\ CarriesReasoning(Get(lead.fields, "Score Reason", <<>>), last'.ev)

C11_QualifyingEvaluateAddsOneLead == [][C11_Step]_vars

\* the second qualifying evaluation of recA has left a second lead for it
C11_Witness ==
    /\ last.op = "evaluate" /\ last.status = "success" /\ last.ev.qualifies
    /\ Len(Linked(ShortlistedLeads, "recA")) = 2

\* C12: an evaluate that completes for a snapshot that does not qualify leaves
\* the shortlist status false and the Shortlisted Leads table as it was; and
\* no run of an evaluator, failed ones included, changes or removes a lead
\* that existed.
C12_Step ==
    /\ (EvaluateCompletes /\ ~last'.ev.qualifies)
       => /\ ShortlistStatus(Applicants'[last'.a]) = Unchecked
          /\ ShortlistedLeads' = ShortlistedLeads
    /\ (runsLeft' # runsLeft /\ last'.op = "evaluate")
       => /\ Len(ShortlistedLeads') >= Len(ShortlistedLeads)
          /\ SubSeq(ShortlistedLeads', 1, Len(ShortlistedLeads)) = ShortlistedLeads

C12_FailingEvaluateAddsNoLead == [][C12_Step]_vars

\* C13: when an evaluate completes, qualifies is the conjunction of the three
\* criteria and the applicant's shortlist status is that boolean.
C13_Step ==
    EvaluateCompletes =>
        /\ last'.ev.qualifies = (/\ last'.ev.experience.passes
                                 /\ last'.ev.compensation.passes
                                 /\ last'.ev.location.passes)
        /\ ShortlistStatus(Applicants'[last'.a]) = checkbox(last'.ev.qualifies)

C13_StatusIsConjunction == [][C13_Step]_vars

(***************************************************************************)
(* The experience criterion (SpecShortlist).                               *)
(***************************************************************************)
\* the snapshot the evaluator of this step read
EvaluatedSnapshot == json_loads(Snapshot(Applicants[last'.a]))

\* one entry's span in half days: an absent or empty start skips the entry, an
\* absent or empty end or "present" is today, a start in the future or an end
\* before the start skips it, a span above 50 years counts as 50 years
TenureHalfDays(job) ==
    LET start == Get(job, "start", NullStr)
        end == Get(job, "end", NullStr)
        open == \/ ~TruthyStr(end)
                \/ str_lower(str_strip(end)) \in {"", "present", "current", "ongoing", "now"}
        endDay == IF open THEN DayNumber(Today) ELSE DayNumber(str_strip(end))
        startDay == DayNumber(str_strip(start))
    IN IF ~TruthyStr(start) \/ ~IsIsoDate(str_strip(start)) THEN 0
       ELSE IF ~open /\ ~IsIsoDate(str_strip(end)) THEN 0
       ELSE IF startDay > DayNumber(Today) \/ endDay < startDay THEN 0
       ELSE IF 2 * (endDay - startDay) > 36525 THEN 36525
       ELSE 2 * (endDay - startDay)

\* the total tenure, the sum of the spans over 365.25 days, is at least 4.0 years
TenureAtLeastFourYears(experience_list) ==
    SumOver(experience_list, TenureHalfDays) >= 2922

\* the tier-1 names of the program that ran
Tier1Names(impl) ==
    IF impl = "04_shortlist_evaluator.py" THEN {TIER1_COMPANIES[i] : i \in 1..Len(TIER1_COMPANIES)}
    ELSE IF impl = "src/shortlist_evaluator.py" THEN TIER_1_COMPANIES
    ELSE TIER_1_COMPANIES_scripts

\* some entry's company name contains, whatever the case, a tier-1 name
NamesTier1Company(experience_list, names) ==
    \E i \in 1..Len(experience_list) :
        LET company == Get(experience_list[i], "company", "")
        IN /\ company # NullStr
           /\ \E name \in names : Contains(str_lower(company), str_lower(name))

\* C20: an evaluate that completes passes the experience criterion exactly when
\* the total tenure is at least 4.0 years or some entry's company name
\* contains, case-insensitively, a tier-1 name; "Google LLC" with one year of
\* tenure passes.
C20_Step ==
    (EvaluateCompletes /\ ~last'.ev.raised)
    => LET experience_list == Get(EvaluatedSnapshot, "experience", <<>>)
       IN last'.ev.experience.passes
          <=> \/ TenureAtLeastFourYears(experience_list)
              \/ NamesTier1Company(experience_list, Tier1Names(last'.impl))
C20_ExperienceCriterion == [][C20_Step]_vars

(***************************************************************************)
(* The dry run of a materialization (SpecStore).                           *)
(***************************************************************************)
\* this step is a run of decompress_data.py --dry-run
DryRunEnds == runsLeft' # runsLeft /\ last'.op = "materialize" /\ last'.dry_run

\* C16: a materialization run as a dry run creates, updates and deletes
\* nothing: every table is after it what it was before, whatever the snapshot
\* holds and whether the store answers or raises.
C16_Step ==
    DryRunEnds => /\ Applicants' = Applicants
                  /\ PersonalDetails' = PersonalDetails
                  /\ WorkExperience' = WorkExperience
                  /\ SalaryPreferences' = SalaryPreferences
                  /\ ShortlistedLeads' = ShortlistedLeads
                  /\ nextRecordId' = nextRecordId
C16_DryRunWritesNothing == [][C16_Step]_vars

\* a dry run that reported its three sections for an applicant who has child
\* records and a snapshot with experience entries
C16_Witness ==
    /\ last.op = "materialize" /\ last.dry_run /\ last.status = "success"
    /\ Linked(PersonalDetails, last.a) # <<>>
    /\ Linked(WorkExperience, last.a) # <<>>
    /\ last.log.work.created > 0

\* company and title as a record shows them: an empty cell reads as ""
Shown(fields, k) == IF k \in DOMAIN fields THEN fields[k] ELSE ""
AsShown(entries) ==
    [i \in 1..Len(entries) |->
       <<IF entries[i][1] = NullStr THEN "" ELSE entries[i][1],
         IF entries[i][2] = NullStr THEN "" ELSE entries[i][2]>>]

\* the operations that lead from the store before to the store after, for
\* applicant a: update or create of the one-to-one records, the Work
\* Experience records that went, company and title of those that came
PerformedOneToOne(before, after, a) ==
    IF Len(Linked(after, a)) > Len(Linked(before, a)) THEN "create" ELSE "update"
PerformedWork(before, after, a) ==
    LET old == {before[i].id : i \in 1..Len(before)}
        kept == {after[i].id : i \in 1..Len(after)}
        came == SelectSeq(Linked(after, a), LAMBDA r : r.id \notin old)
    IN WorkLog(Cardinality({r \in {before[i] : i \in 1..Len(before)} : r.id \notin kept}),
               Len(came),
               [i \in 1..Len(came) |-> <<Shown(came[i].fields, "Company"),
                                         Shown(came[i].fields, "Title")>>])
Performed(before, after, a) ==
    OperationLog(PerformedOneToOne(before.pd, after.pd, a),
                 PerformedWork(before.we, after.we, a),
                 PerformedOneToOne(before.sp, after.sp, a))
ShownLog(log) ==
    OperationLog(log.personal,
                 WorkLog(log.work.deleted, log.work.created, AsShown(log.work.entries)),
                 log.salary)

\* C17: what a dry run reports, when the store answers its requests, is what
\* the real run on the same store logs and performs: update or create for
\* Personal Details and for Salary Preferences, the number of Work Experience
\* records deleted, the number created and the company and title of each.
C17_Step ==
    (DryRunEnds /\ last'.status = "success" /\ ~last'.storeExc)
    => LET real == decompress_data_main(Ctx(TheStore', 0), last'.a, FALSE)
       IN /\ real.log = last'.log
          /\ ShownLog(real.log) = Performed(TheStore', real.c.s, last'.a)
MaterializeEnds == runsLeft' # runsLeft /\ last'.op = "materialize"

\* the content the materialization of this step was given: the supplied text,
\* or the Compressed JSON the applicant had
GivenContent == IF last'.input # EmptyText THEN last'.input ELSE Snapshot(Applicants[last'.a])

\* the content is no JSON, or a JSON whose experience entries are not objects
Unparsable(text) ==
    /\ text # EmptyText
    /\ \/ ~IsJson(text)
       \/ ~AllObjects(Get(json_loads(text), "experience", <<>>))

\* C18: a materialization given unparsable content reports a failure and
\* leaves the applicant's Personal Details, Work Experience and Salary
\* Preferences records as they were.
C18_Step ==
    (MaterializeEnds /\ Unparsable(GivenContent))
    => /\ last'.status \in {"error", "crash"}
       /\ Linked(PersonalDetails', last'.a) = Linked(PersonalDetails, last'.a)
       /\ Linked(WorkExperience', last'.a) = Linked(WorkExperience, last'.a)
       /\ Linked(SalaryPreferences', last'.a) = Linked(SalaryPreferences, last'.a)
C18_UnparsableContentWritesNothing == [][C18_Step]_vars

\* the content has something in each of its three sections
HasThreeSections(text) ==
    /\ IsJson(text)
    /\ Truthy(Get(json_loads(text), "personal", EmptyDict))
    /\ Get(json_loads(text), "experience", <<>>) # <<>>
    /\ Truthy(Get(json_loads(text), "salary", EmptyDict))

\* C19: when the store fails the operation of one section of a
\* materialization, the other sections are still attempted and the result says
\* for each of the three sections whether it succeeded or failed.
C19_Step ==
    (/\ MaterializeEnds /\ ~last'.dry_run
     /\ HasThreeSections(GivenContent)
     /\ "failed" \in {last'.personal, last'.work, last'.salary})
    => {last'.personal, last'.work, last'.salary} \subseteq {"ok", "failed"}
C19_SectionsReportedSeparately == [][C19_Step]_vars

(***************************************************************************)
(* What a program run for one applicant leaves alone (SpecFrame).          *)
(***************************************************************************)
\* the Applicant record of b and the records of the four tables linked to b
RecordsOf(store, b) ==
    [app |-> store.app[b], pd |-> Linked(store.pd, b), we |-> Linked(store.we, b),
     sp |-> Linked(store.sp, b), sl |-> Linked(store.sl, b)]

\* C15: a step of an aggregation, materialization, evaluation or enrichment
\* run for one applicant leaves the Applicant record and the Personal Details,
\* Work Experience, Salary Preferences and Shortlisted Leads records of every
\* other applicant as they were, also when the store raises part-way.
C15_Step ==
    \A b \in ApplicantIds :
        b # last'.a => RecordsOf(TheStore', b) = RecordsOf(TheStore, b)
C15_OtherApplicantsUntouched == [][C15_Step]_vars

\* a materialization for recA that the store failed after the Work Experience
\* records of recA were deleted, next to an applicant recB who has records and
\* a snapshot
C15_Witness ==
    /\ last.a = "recA" /\ last.op = "materialize" /\ last.storeExc
    /\ Linked(WorkExperience, "recA") = <<>>
    /\ Linked(WorkExperience, "recB") # <<>>
    /\ HasSnapshot(Applicants["recB"])

(***************************************************************************)
(* The batch run (SpecBatch).                                              *)
(***************************************************************************)
\* a process-all run is over: nothing is left to evaluate, no provider call is
\* awaited, and it did not end on a listing of the Applicants table that raised
BatchOver ==
    /\ last.op = "process-all" /\ last.pending = "none"
    /\ last.status \notin {"calling", "crash"}

\* none of b's own stages before the enrichment failed in the run
OwnStagesWent(b) == \A s \in {"aggregate", "evaluate"} : <<b, s>> \notin last.failed

\* C14: when a process-all run is over, every applicant whose own stages did
\* not fail has been taken through aggregate, evaluate and enrich, whatever
\* failed for the other applicants.
C14_BatchTakesEveryApplicantThrough ==
    BatchOver
    => \A b \in ApplicantIds :
           OwnStagesWent(b)
           => {<<b, "aggregate">>, <<b, "evaluate">>, <<b, "enrich">>} \subseteq last.done


(***************************************************************************)
(* The compensation and location criteria (SpecCriteria).                  *)
(***************************************************************************)
\* the key under which the program that ran reads the preferred rate
RateKey(impl) == IF impl = "scripts/shortlist.py" THEN "rate" ELSE "preferred_rate"

\* the snapshot's salary section holds the rate under that key, the currency
\* and the availability
StatesCompensation(salary, impl) ==
    /\ {RateKey(impl), "currency", "availability"} \subseteq DOMAIN salary
    /\ salary[RateKey(impl)] # NullNum /\ salary.availability # NullNum
    /\ salary.currency # NullStr

\* C21: an evaluate that completes passes the compensation criterion exactly
\* when the currency is USD, the preferred rate is at most 100 and the
\* availability is at least 20, both bounds included; with another currency it
\* fails and its reason names the currency.
C21_Step ==
    LET salary == Get(EvaluatedSnapshot, "salary", EmptyDict)
        verdict == last'.ev.compensation
    IN (EvaluateCompletes /\ ~last'.ev.raised /\ StatesCompensation(salary, last'.impl))
       => /\ verdict.passes <=> /\ salary.currency = "USD"
                                /\ salary[RateKey(last'.impl)] <= 100
                                /\ salary.availability >= 20
          /\ salary.currency # "USD"
             => \E i \in 1..Len(verdict.reason) :
                    Contains(str_lower(verdict.reason[i]), "currency")
C21_CompensationCriterion == [][C21_Step]_vars


\* the near-matches of an approved region: a name that holds one as a part
Blacklist == {"australia", "austria", "indonesia", "indiana"}

\* the approved-region keywords of the program that ran, lowered and trimmed
RegionKeywords(impl) ==
    IF impl = "04_shortlist_evaluator.py"
    THEN {str_strip(k) : k \in APPROVED_LOCATIONS \cup APPROVED_COUNTRY_CODES}
    ELSE IF impl = "src/shortlist_evaluator.py" THEN {str_lower(k) : k \in ALLOWED_LOCATIONS}
    ELSE {str_lower(k) : k \in valid_locations}

\* the words of a text: its runs of letters, lowered
RECURSIVE LettersOnly(_)
LettersOnly(s) ==
    IF s = "" THEN ""
    ELSE (IF IsAlpha(Char(s, 1)) THEN LowerChar(Char(s, 1)) ELSE " ") \o LettersOnly(Rest(s))
WordsOf(s) == str_split(LettersOnly(s))

\* the keyword's words are consecutive words of the location
BoundedMatch(location, keyword) ==
    LET w == WordsOf(location)
        k == WordsOf(keyword)
    IN \E i \in 1..(Len(w) - Len(k) + 1) : SubSeq(w, i, i + Len(k) - 1) = k

\* C22: an evaluate that completes fails the location criterion when the
\* location holds a blacklisted near-match, whatever approved keyword it also
\* holds; otherwise it passes exactly when an approved keyword occurs in it as
\* whole words.  "New Delhi, India" passes, "Melbourne, Australia" and
\* "Indianapolis, Indiana" fail.
C22_Step ==
    LET location == Get(Get(EvaluatedSnapshot, "personal", EmptyDict), "location", NullStr)
        passes == last'.ev.location.passes
    IN (EvaluateCompletes /\ ~last'.ev.raised /\ TruthyStr(location))
       => IF \E b \in Blacklist : Contains(str_lower(location), b)
          THEN ~passes
          ELSE passes <=> \E k \in RegionKeywords(last'.impl) : BoundedMatch(location, k)
C22_LocationCriterion == [][C22_Step]_vars


(***************************************************************************)
(* The stored assessment score (SpecScores).                               *)
(***************************************************************************)
StoredScore(fields) == Get(fields, "LLM Score", NullNum)

\* C23: every score an Applicant record holds is an integer between 1 and 10:
\* an answer whose score is missing, not an integer or outside 1..10 is never
\* stored as the score.
C23_ScoreInRange ==
    \A a \in DOMAIN Applicants :
        StoredScore(Applicants[a]) # NullNum =>
            StoredScore(Applicants[a]) >= 1 /\ StoredScore(Applicants[a]) <= 10

(***************************************************************************)
(* Aggregation without work experience (SpecStore).                        *)
(***************************************************************************)
\* C24: an aggregate, no store request of which raises, of an applicant with
\* a Personal Details record, a Salary Preferences record and no Work
\* Experience record succeeds and leaves a snapshot whose experience section
\* is the empty list.
C24_Step ==
    (/\ runsLeft' # runsLeft /\ last'.op = "aggregate" /\ ~last'.storeExc
     /\ Linked(PersonalDetails, last'.a) # <<>>
     /\ Linked(SalaryPreferences, last'.a) # <<>>
     /\ Linked(WorkExperience, last'.a) = <<>>)
    => /\ last'.status = "success"
       /\ HasSnapshot(Applicants'[last'.a])
       /\ json_loads(Snapshot(Applicants'[last'.a])).experience = <<>>

C24_NoExperienceAggregates == [][C24_Step]_vars

(***************************************************************************)
(* The snapshot is derived from the child tables (SpecStore).              *)
(***************************************************************************)
\* what the compress program impl builds from the child tables as they are
Serialized(impl, a) ==
    CASE impl = "03_compress_data.py" -> compress_applicant_data_03(Ctx(TheStore, 0), a).data
      [] impl = "src/json_compressor.py" -> compress_applicant_data_src(Ctx(TheStore, 0), a).data
      [] OTHER -> DataCompressor_compress_applicant_data(Ctx(TheStore, 0), a).data

\* C25: the Compressed JSON of an Applicant record changes only in a step of
\* an aggregate of that applicant, and the value written is the serialization
\* of the applicant's Personal Details, Work Experience and Salary Preferences
\* records as that aggregate read them (the records of the tables, when no
\* read raised); no other operation writes it.
C25_Step ==
    \A a \in DOMAIN Applicants :
        Snapshot(Applicants'[a]) # Snapshot(Applicants[a]) =>
            /\ last'.op = "aggregate" /\ last'.a = a
            /\ ~last'.storeExc =>
                   Snapshot(Applicants'[a]) = json_dumps(Serialized(last'.impl, a))

C25_SnapshotIsDerived == [][C25_Step]_vars

(***************************************************************************)
(* Evaluation of snapshots that lack a section (SpecSections).             *)
(***************************************************************************)
\* this step is a run of an evaluator during which no store request raised
EvaluateRuns == runsLeft' # runsLeft /\ last'.op = "evaluate" /\ ~last'.storeExc

\* the section is absent from the snapshot or is empty
Lacks(snapshot, section) ==
    section \notin DOMAIN snapshot \/ snapshot[section] = <<>>

CriterionOf(ev, section) ==
    CASE section = "personal" -> ev.location
      [] section = "experience" -> ev.experience
      [] OTHER -> ev.compensation

\* C26: an evaluate of a snapshot that parses and lacks the personal, the
\* experience or the salary section does not raise and its criterion for that
\* section fails with a reason; an evaluate, no store request of which raises,
\* fails only when the snapshot does not parse, and then the shortlist status
\* and the Shortlisted Leads table stay as they were.
C26_Step ==
    EvaluateRuns =>
        /\ HasSnapshot(Applicants[last'.a]) =>
              /\ last'.status = "success" /\ ~last'.ev.raised
              /\ \A section \in Sections_ :
                    Lacks(EvaluatedSnapshot, section) =>
                        /\ ~CriterionOf(last'.ev, section).passes
                        /\ CriterionOf(last'.ev, section).reason # <<>>
        /\ ~HasSnapshot(Applicants[last'.a]) =>
              /\ last'.status # "success"
              /\ ShortlistStatus(Applicants'[last'.a]) = ShortlistStatus(Applicants[last'.a])
              /\ ShortlistedLeads' = ShortlistedLeads

C26_LackingSectionFailsItsCriterion == [][C26_Step]_vars

(***************************************************************************)
(* Total years of experience over unusual entries (SpecCriteria).          *)
(***************************************************************************)
\* what one entry adds to the total the evaluator impl computes, and 50 years,
\* both in the unit impl counts in: half days, days, whole months
Contribution(impl, job) ==
    CASE impl = "04_shortlist_evaluator.py" -> job_half_days_04(job)
      [] impl = "src/shortlist_evaluator.py" -> 2 * exp_days_src(job)
      [] OTHER -> exp_months_scripts(job)
FiftyYears(impl) == IF impl = "scripts/shortlist.py" THEN 600 ELSE 36525

\* C27: for the experience list of every snapshot that is evaluated, entries
\* that end before they start, start in the future, have no parsable date or
\* span more than 50 years included, the total the evaluator computes is not
\* negative and no entry adds more than 50 years to it.
C27_Step ==
    (EvaluateRuns /\ HasSnapshot(Applicants[last'.a])) =>
        LET experience_list == Get(EvaluatedSnapshot, "experience", <<>>)
            added == [i \in 1..Len(experience_list) |->
                        Contribution(last'.impl, experience_list[i])]
        IN /\ Sum(added) >= 0
           /\ \A i \in 1..Len(added) : added[i] <= FiftyYears(last'.impl)

C27_TotalYearsBounded == [][C27_Step]_vars

(***************************************************************************)
(* The summary of a run over all applicants (SpecTally).                   *)
(***************************************************************************)
\* a run over all applicants ended with its summary in this step
SummaryEnds == runsLeft' # runsLeft /\ last'.op = "all" /\ last'.status = "summary"

\* the result lines of applicant a, and the lines of one tally
LinesOf(printed, a) == SelectSeq(printed, LAMBDA line : line[1] = a)
LinesIn(printed, tally) == SelectSeq(printed, LAMBDA line : line[2] = tally)

\* every applicant of the batch has one result line, each counter is the
\* number of lines of its tally, the three counters add up to the batch
CountedOnce(batch, counts, printed) ==
    /\ \A i \in 1..Len(batch) : Len(LinesOf(printed, batch[i])) = 1
    /\ counts.success_count = Len(LinesIn(printed, "success"))
    /\ counts.skip_count = Len(LinesIn(printed, "skip"))
    /\ counts.error_count = Len(LinesIn(printed, "error"))
    /\ counts.success_count + counts.skip_count + counts.error_count = Len(batch)

\* C28: when a run over all applicants prints its summary, every applicant of
\* the batch was counted in exactly one of the success, skip and error
\* counters, the three counters add up to the number of applicants, and an
\* error does not go uncounted: when a store request raised while an applicant
\* was processed, the error counter is not zero.
C28_Step ==
    SummaryEnds =>
        /\ CountedOnce(last'.queue, last'.counts, last'.printed)
        /\ last'.storeExc => last'.counts.error_count > 0

C28_EveryApplicantCounted == [][C28_Step]_vars

(***************************************************************************)
(* The shortlist status and the lead of one evaluation (SpecShortlist).    *)
(***************************************************************************)
\* the shortlist status reads as true: the checkbox, or the text
\* scripts/shortlist.py writes for a qualifying applicant
Shortlisted(fields) == ShortlistStatus(fields) \in {Checked, "Shortlisted"}

\* C29: a run of an evaluator that turns the shortlist status of an applicant
\* to true, a run during which a store write raised included, has added a
\* Shortlisted Leads record for that applicant.
C29_Step ==
    \A a \in DOMAIN Applicants :
        (/\ runsLeft' # runsLeft /\ last'.op = "evaluate"
         /\ ~Shortlisted(Applicants[a]) /\ Shortlisted(Applicants'[a]))
        => Len(Linked(ShortlistedLeads', a)) = Len(Linked(ShortlistedLeads, a)) + 1

C29_StatusTrueHasItsLead == [][C29_Step]_vars

(***************************************************************************)
(* Replacement of the Work Experience records (SpecStore).                 *)
(***************************************************************************)
\* the fields of the applicant's Work Experience records, in table order
LinkedFields(records, a) ==
    [i \in 1..Len(Linked(records, a)) |-> Linked(records, a)[i].fields]

\* the fields of the records the experience list of a snapshot stands for
NewExperience(experience) ==
    [i \in 1..Len(experience) |-> Stored(exp_fields(experience[i]))]

\* C30: after a materialize that is no dry run, a run in which a delete or a
\* create raised included, the applicant's Work Experience records are either
\* the records it had before or the complete list of the snapshot, never a
\* part of one or a mix of the two.
C30_Step ==
    (MaterializeEnds /\ ~last'.dry_run /\ IsJson(GivenContent))
    => LET experience == Section(json_loads(GivenContent), "experience", <<>>)
       IN \/ Linked(WorkExperience', last'.a) = Linked(WorkExperience, last'.a)
          \/ LinkedFields(WorkExperience', last'.a) = NewExperience(experience)

C30_ReplacementIsAllOrNothing == [][C30_Step]_vars
====
